---- MODULE Spec2Model ----
(***************************************************************************)
(* cooDb: a Bitcask-style key-value store.  The model covers the record    *)
(* codec (coodb/data/log_record.py), the segment file (data_file.py), the  *)
(* database (db.py) and the batch (batch.py).  A segment file is a         *)
(* sequence of entries; every entry keeps the fields the codec writes and  *)
(* the number of bytes of it that are on disk, so that positions are byte  *)
(* offsets exactly as in the code.                                         *)
(***************************************************************************)
EXTENDS Integers, Sequences, FiniteSets, TLC

\* ---------------------------------------------------------------- bounds
\* keys and values are byte strings, modelled as sequences of byte values
Keys == {<<97>>, <<98>>}
Values == {<<>>, <<49>>}
\* the values buffered by Batch.put
BatchValues == {<<49>>}
\* Options.max_file_size of the modelled database
MaxFileSize == 29
\* Options.bytes_per_sync of the modelled database (sync_writes is false)
BytesPerSync == 4
\* no append is attempted once this many entries are on disk
MaxRecords == 4
\* no batch is committed once seq_no has reached this value
MaxSeqNo == 2
\* the directory is reopened at most this many times
MaxOpens == 1
\* the processes that open and close the directory
NumProcs == 3
\* the lock file is created at most this many times
MaxInodes == 2
\* the specifications of single calls (the calls that raise, the batches
\* whose calls are logged, the reclaim accounting) start each write from a
\* database of at most this many records
ErrRecords == 1
\* a batch whose calls are logged receives at most this many calls
MaxBuffered == 4
\* where threads commit batches, the segment files hold at most this many
\* records
MaxCommitRecords == 7
\* where writes follow a recovery, the directory is opened this many times
MaxReopens == 2
\* the chunks written through an I/O manager, and how many of them at most
Chunks == {<<>>, <<97>>, <<98>>, <<99, 100>>}
MaxChunks == 4

\* ------------------------------------------------------ program constants
HEADER_SIZE == 13
NON_TRANSACTION_SEQ_NO == 0

\* LogRecordType
NORMAL == 1
DELETED == 2
TXNSTART == 3
TXNFINISHED == 4
TXNABORT == 5

\* IndexType: only BTREE matters to the code (batch.py:76, db.py:80, db.py:253)
IndexTypes == {"BTREE", "SKIPLIST"}

\* Python's None for an Optional[bytes]: no byte string equals it
NoneVal == <<-1>>
\* Python's None for an Optional[LogRecordPos]: segment ids start at 1
NoPos == [file_id |-> 0, offset |-> 0, size |-> 0]
\* Python's None for the result of read_log_record
NoRead == [ok |-> FALSE, type |-> 0, key |-> <<>>, value |-> <<>>, size |-> 0]

VARIABLES
    \* ---- the directory
    files,          \* segment id -> sequence of entries of <id:09d>.data
    aux,            \* the other *.data names present: merge.data, merge_finished.data
    seq_no_file,    \* content of seq_no.data, -1 when the file does not exist
    \* ---- the DB instance
    index_type,     \* options.index_type
    sync_writes,    \* options.sync_writes
    is_closed,      \* DB.is_closed (TRUE also when no instance exists)
    file_ids,       \* DB.file_ids
    active_file,    \* id of DB.active_file, 0 for None
    write_offset,   \* DB.active_file.write_offset
    older_files,    \* keys of DB.older_files
    synced,         \* segment id -> the length of the file that an fsync has covered
    index,          \* DB.index: key -> LogRecordPos or NoPos
    seq_no,         \* DB.seq_no
    reclaim_size,   \* DB.reclaim_size
    bytes_write,    \* DB.bytes_write
    \* ---- the Batch instance
    batch,          \* [exists, writes, is_committed]
    \* ---- history variables
    kv,             \* the plain key -> value map the database is compared with
    last_op,        \* the operation that produced the state
    closed_view,    \* the mapping that get() showed when the instance was closed
    txn,            \* the records of the last batch commit
    unfinished,     \* positions of records of batches without TXN_FINISHED on disk
    opens,          \* number of reopens of the directory so far
    crashed,        \* TRUE from a crash until the next close
    corrupt_at,     \* position of the record damaged on disk, NoPos when none is
    raised,         \* the exception that the last call raised, NoRaise when it returned
    buffered,       \* the calls of put and delete on the batch, in call order, where logged
    \* ---- the directory lock: the file flock and one FileLock per process
    lock_inode,     \* the inode that the path <dir>/flock names, 0 when no such file
    inodes,         \* number of inodes created for the path so far
    flock_owner,    \* inode -> the process whose open file holds LOCK_EX on it, 0 for none
    file_handle,    \* process -> inode of FileLock.file_handle, 0 for None
    locked,         \* process -> FileLock.locked
    lock_pc,        \* process -> where it is in FileLock.acquire and release
    in_use,         \* process -> its last DB(dir) raised ErrDatabaseIsUsing
    \* ---- the database mutex and the threads that commit batches
    mu,             \* DB.mu: the thread that holds it, "free" when none does
    commits,        \* thread -> where its Batch.commit is, and what it has written
    is_merging,     \* DB.is_merging
    merges,         \* thread -> where its DB.merge call is, and the calls it overlaps
    \* ---- one file written through each I/O backend
    io,             \* the FileIOManager, the MMapIOManager, the chunks written, the last returns
    puts            \* thread -> where its DB.put call is, and its arguments

dataVars == <<files, aux, seq_no_file, index_type, sync_writes, is_closed, file_ids, active_file,
              write_offset, older_files, synced, index, seq_no, reclaim_size, bytes_write,
              batch, kv, last_op, closed_view, txn, unfinished, opens, crashed,
              corrupt_at, raised, buffered>>

fileLockVars == <<lock_inode, inodes, flock_owner, file_handle, locked, lock_pc, in_use>>
mergeVars == <<is_merging, merges>>
muVars == <<mu, commits, mergeVars, io, puts>>
lockVars == <<fileLockVars, muVars>>

vars == <<dataVars, lockVars>>

dirVars == <<files, aux, seq_no_file>>
logVars == <<files, file_ids, active_file, write_offset, older_files, synced>>
histVars == <<txn, unfinished, opens>>
envVars == <<crashed, corrupt_at>>

\* ------------------------------------------------------------- helpers
Last(s) == s[Len(s)]

RECURSIVE SumSize(_)
SumSize(s) == IF s = <<>> THEN 0 ELSE s[1].size + SumSize(Tail(s))

\* the byte offset at which entry i of a segment starts
StartOffset(s, i) == SumSize(SubSeq(s, 1, i - 1))

\* number of entries in all segment files
TotalRecords == LET RECURSIVE Cnt(_)
                    Cnt(S) == IF S = {} THEN 0
                              ELSE LET f == CHOOSE x \in S : TRUE
                                   IN Len(files[f]) + Cnt(S \ {f})
                IN Cnt(DOMAIN files)

\* str(n).encode(): the ASCII decimal digits of n
RECURSIVE str(_)
str(n) == IF n < 10 THEN <<48 + n>> ELSE str(n \div 10) \o <<48 + (n % 10)>>

\* ------------------------------------------------------- record codec
\* LogRecord.encode: the 13-byte header (crc, type, key size, value size),
\* the key and the value; crc_ok says that the stored CRC matches the bytes
encode(type, key, value) ==
    [type |-> type, key |-> key, value |-> value,
     size |-> HEADER_SIZE + Len(key) + Len(value), crc_ok |-> TRUE,
     ack |-> [acked |-> FALSE, view |-> [k \in Keys |-> NoneVal]]]

\* history annotation of an entry: the record completes an acknowledged write,
\* after which the database is expected to show view
Acked(record, view) == [record EXCEPT !.ack = [acked |-> TRUE, view |-> view]]

total_size(e) == HEADER_SIZE + Len(e.key) + Len(e.value)

\* io_manager.size()
FileSize(s) == SumSize(s)

\* the number of the entry of segment s whose first byte is at this offset
\* (i is the entry reached, offset the bytes still to skip), 0 when none is
RECURSIVE record_at(_, _, _)
record_at(s, i, offset) ==
    IF i > Len(s) THEN 0
    ELSE IF offset = 0 THEN i
    ELSE IF offset < s[i].size THEN 0
    ELSE record_at(s, i + 1, offset - s[i].size)

\* read_log_record without the CRC comparison
read_log_record_no_crc(s, offset) ==
    LET file_size == FileSize(s)
        i == record_at(s, 1, offset)
    IN  IF offset >= file_size THEN NoRead
        ELSE IF offset + HEADER_SIZE > file_size THEN NoRead
        ELSE IF i = 0 THEN NoRead
        ELSE LET e == s[i]
             IN  IF e.type \notin {NORMAL, DELETED, TXNFINISHED} THEN NoRead
                 ELSE IF Len(e.key) <= 0 THEN NoRead
                 ELSE IF offset + total_size(e) > file_size THEN NoRead
                 ELSE [ok |-> TRUE, type |-> e.type, key |-> e.key,
                       value |-> e.value, size |-> total_size(e)]

\* DataFile.read_log_record
read_log_record(s, offset) ==
    LET file_size == FileSize(s)
        i == record_at(s, 1, offset)
    IN  IF offset >= file_size THEN NoRead
        ELSE IF offset + HEADER_SIZE > file_size THEN NoRead
        \* the bytes at offset are not the start of an encoded record
        ELSE IF i = 0 THEN NoRead
        ELSE LET e == s[i]
             IN  IF e.type \notin {NORMAL, DELETED, TXNFINISHED} THEN NoRead
                 ELSE IF Len(e.key) <= 0 THEN NoRead
                 ELSE IF offset + total_size(e) > file_size THEN NoRead
                 ELSE IF e.size # total_size(e) \/ ~e.crc_ok THEN NoRead
                 ELSE [ok |-> TRUE, type |-> e.type, key |-> e.key,
                       value |-> e.value, size |-> total_size(e)]

\* the log part of the database state, passed through the append path
Log == [files |-> files, file_ids |-> file_ids, active_file |-> active_file,
        write_offset |-> write_offset, older_files |-> older_files, synced |-> synced]

\* DataFile.__init__: open (creating it when missing) the segment file
OpenDataFile(fs, id) == IF id \in DOMAIN fs THEN fs ELSE fs @@ (id :> <<>>)

\* write_log_record returning the offset after the write
write_log_record_end_offset(L, record) ==
    [L |-> [L EXCEPT !.files[L.active_file] = Append(@, record),
                     !.write_offset = @ + record.size],
     offset |-> L.write_offset + record.size, size |-> record.size]

\* DataFile.write_log_record: append at EOF, return (write_offset, size)
write_log_record(L, record) ==
    [L |-> [L EXCEPT !.files[L.active_file] = Append(@, record),
                     !.write_offset = @ + record.size],
     offset |-> L.write_offset, size |-> record.size]

\* what stays synced of the segment files fs: a file that is new has nothing
\* synced, a file that is cut has at most its length
synced_on(fs) ==
    [f \in DOMAIN fs |->
        LET n == IF f \in DOMAIN synced THEN synced[f] ELSE 0
        IN  IF n < FileSize(fs[f]) THEN n ELSE FileSize(fs[f])]

\* DataFile.sync on the active segment: flush and fsync
sync(L) == [L EXCEPT !.synced[L.active_file] = FileSize(L.files[L.active_file])]

\* what is synced once the rollover has synced the segment it seals
sealed_unsynced(L) == L.synced
sealed(L) == IF L.active_file # 0 THEN sync(L).synced ELSE L.synced

\* the rollover with a new segment id that leaves a gap
rollover_skips_id(L) ==
    IF L.active_file = 0 \/ L.write_offset >= MaxFileSize
    THEN LET new_file_id == IF L.file_ids # <<>> THEN Last(L.file_ids) + 2 ELSE 1
             fs == OpenDataFile(L.files, new_file_id)
         IN  [L EXCEPT !.older_files = IF L.active_file # 0
                                       THEN @ \cup {L.active_file} ELSE @,
                       !.active_file = new_file_id,
                       !.files = fs,
                       !.write_offset = FileSize(fs[new_file_id]),
                       !.file_ids = Append(@, new_file_id),
                       !.synced = sealed(L) @@ (new_file_id :> 0)]
    ELSE L

\* the rollover with the new segment inheriting the old write offset
rollover_keeps_offset(L) ==
    IF L.active_file = 0 \/ L.write_offset >= MaxFileSize
    THEN LET new_file_id == IF L.file_ids # <<>> THEN Last(L.file_ids) + 1 ELSE 1
             fs == OpenDataFile(L.files, new_file_id)
         IN  [L EXCEPT !.older_files = IF L.active_file # 0
                                       THEN @ \cup {L.active_file} ELSE @,
                       !.active_file = new_file_id,
                       !.files = fs,
                       !.file_ids = Append(@, new_file_id),
                       !.synced = sealed(L) @@ (new_file_id :> 0)]
    ELSE L

\* DB._append_log_record without the final write: the rollover
rollover(L) ==
    IF L.active_file = 0 \/ L.write_offset >= MaxFileSize
    THEN LET new_file_id == IF L.file_ids # <<>> THEN Last(L.file_ids) + 1 ELSE 1
             fs == OpenDataFile(L.files, new_file_id)
         IN  [L EXCEPT !.older_files = IF L.active_file # 0
                                       THEN @ \cup {L.active_file} ELSE @,
                       !.active_file = new_file_id,
                       !.files = fs,
                       !.write_offset = FileSize(fs[new_file_id]),
                       !.file_ids = Append(@, new_file_id),
                       !.synced = sealed(L) @@ (new_file_id :> 0)]
    ELSE L

\* DB._append_log_record
append_log_record(L, record) ==
    LET L1 == rollover(L)
        w == write_log_record(L1, record)
    IN  [L |-> w.L,
         pos |-> [file_id |-> L1.active_file, offset |-> w.offset, size |-> w.size]]

\* ---------------------------------------------------------------- reads
\* DB._get_value_by_position; an exception is reported by get as None
get_value_by_position(fs, act, older, pos) ==
    IF act = 0 THEN NoneVal
    ELSE IF pos.file_id # act /\ pos.file_id \notin older THEN NoneVal
    ELSE IF pos.file_id \notin DOMAIN fs THEN NoneVal
    ELSE LET r == read_log_record(fs[pos.file_id], pos.offset)
         IN  IF ~r.ok \/ r.type = DELETED THEN NoneVal ELSE r.value

\* DB.get on the state (fs, act, older, idx)
get_in(fs, act, older, idx, key) ==
    IF idx[key] = NoPos THEN NoneVal
    ELSE get_value_by_position(fs, act, older, idx[key])

\* DB.get
get(key) == get_in(files, active_file, older_files, index, key)

\* what get() shows for every key
View == [k \in Keys |-> get(k)]

\* Indexer.size
index_size(idx) == Cardinality({k \in Keys : idx[k] # NoPos})

\* DB.list_keys: the keys the index iterator visits, as a set
list_keys == {k \in Keys : index[k] # NoPos}

\* the orders in which an iterator of the index may visit the keys S: the
\* order is that of the index backend, which the database code does not fix
Orders(S) ==
    {s \in [1..Cardinality(S) -> S] : \A i, j \in 1..Cardinality(S) : i # j => s[i] # s[j]}

\* ------------------------------------------------- the ordered iteration
\* The index backends and the Iterator class are not among the sources; the
\* four definitions below follow section 4.5 of the specification: a sorted
\* container keyed by byte-lexicographic order, with a forward and a reverse
\* cursor.
\* a < b as Python compares bytes
RECURSIVE bytes_lt(_, _)
bytes_lt(a, b) ==
    IF b = <<>> THEN FALSE
    ELSE IF a = <<>> THEN TRUE
    ELSE IF Head(a) # Head(b) THEN Head(a) < Head(b)
    ELSE bytes_lt(Tail(a), Tail(b))

\* the keys of S from the smallest to the largest
RECURSIVE sorted(_)
sorted(S) ==
    IF S = {} THEN <<>>
    ELSE LET m == CHOOSE x \in S : \A y \in S \ {x} : bytes_lt(x, y)
         IN  <<m>> \o sorted(S \ {m})

reversed(s) == [i \in 1..Len(s) |-> s[Len(s) + 1 - i]]

\* Indexer.iterator(reverse), rewound and run to its end
index_iterator_forward_only(reverse) == sorted(list_keys)
index_iterator(reverse) ==
    IF reverse THEN reversed(sorted(list_keys)) ELSE sorted(list_keys)

\* DB.iterator(reverse), rewound and run to its end: the cursor of the index,
\* each value fetched through the read path
iterator(reverse) ==
    LET ks == index_iterator(reverse)
    IN  [i \in 1..Len(ks) |-> [key |-> ks[i], value |-> get(ks[i])]]

\* DB.list_keys as the list it returns
list_keys_list ==
    LET it == iterator(FALSE) IN [i \in 1..Len(it) |-> it[i].key]

\* ------------------------------------------------------------- recovery
\* DB.load_data_files: a name ending in .data passes the filter unless it starts
\* with one of the three reserved prefixes; aux holds the stems of the names
\* merge.data and merge_finished.data, which the filter lets through and which
\* int() cannot parse: the ValueError makes the open fail
load_data_files_raises ==
    \E n \in aux : n \notin {"seq_no", "hint-index", "merge-finished"}

\* the segment ids in descending order
RECURSIVE SortIdsDescending(_)
SortIdsDescending(S) ==
    IF S = {} THEN <<>>
    ELSE LET m == CHOOSE x \in S : \A y \in S : x >= y
         IN  <<m>> \o SortIdsDescending(S \ {m})

\* DB.load_data_files: ids in ascending order
RECURSIVE SortIds(_)
SortIds(S) ==
    IF S = {} THEN <<>>
    ELSE LET m == CHOOSE x \in S : \A y \in S : x <= y
         IN  <<m>> \o SortIds(S \ {m})

\* DB.load_index_from_files: the scan of one segment from an offset
RECURSIVE scan_file(_, _, _, _)
scan_file(s, file_id, offset, acc) ==
    LET r == read_log_record(s, offset)
    IN  IF ~r.ok THEN acc
        ELSE LET old_pos == acc.index[r.key]
                 acc1 ==
                   IF r.type = NORMAL
                   THEN [index |-> [acc.index EXCEPT ![r.key] =
                                       [file_id |-> file_id, offset |-> offset, size |-> r.size]],
                         reclaim_size |-> acc.reclaim_size + old_pos.size,
                         bytes_write |-> acc.bytes_write + Len(r.key) + Len(r.value)]
                   ELSE IF r.type = DELETED
                   THEN [index |-> [acc.index EXCEPT ![r.key] = NoPos],
                         reclaim_size |-> acc.reclaim_size + old_pos.size,
                         bytes_write |-> acc.bytes_write]
                   ELSE acc
             IN  scan_file(s, file_id, offset + r.size, acc1)

\* DB.load_index_from_files: all segments of file_ids in order
RECURSIVE load_index_from_files(_, _, _)
load_index_from_files(fs, ids, acc) ==
    IF ids = <<>> THEN acc
    ELSE load_index_from_files(fs, Tail(ids),
            IF ids[1] \in DOMAIN fs THEN scan_file(fs[ids[1]], ids[1], 0, acc) ELSE acc)

EmptyIndex == [k \in Keys |-> NoPos]

\* the index, reclaim_size and bytes_write that an open of the directory builds
Recovered(fs) ==
    load_index_from_files(fs, SortIds(DOMAIN fs),
        [index |-> EmptyIndex, reclaim_size |-> 0, bytes_write |-> 0])

\* the outcome of a call: the method and the exception class it raised
\* (the key is NoneVal for a method without a key argument)
NoRaise == [op |-> "", key |-> NoneVal, err |-> ""]
Raise(op, key, err) == [op |-> op, key |-> key, err |-> err]
NoBatch == [exists |-> FALSE, writes |-> <<>>, is_committed |-> FALSE]
NoTxn == [puts |-> {}, dels |-> {}, recs |-> {}, fin |-> NoPos]
NoView == [k \in Keys |-> NoneVal]

\* a committed batch is not used again once the caller goes on with the database
Dropped(b) == IF b.is_committed THEN NoBatch ELSE b

\* ------------------------------------------------------------ file lock
Procs == 1..NumProcs

\* FileLock.__init__ of every process: no lock file, nothing acquired
\* the threads of the process that write to the database
Threads == {"t1", "t2"}

\* a thread that has not called Batch.commit
NoCommit == [pc |-> "idle", txn_id |-> 0, writes |-> <<>>, next |-> 0, start |-> 0,
             poss |-> <<>>]

\* a thread that has not called DB.merge
\* a thread that is not in DB.put
NoPut == [pc |-> "idle", key |-> <<>>, value |-> <<>>]
NoMerge == [pc |-> "idle", ran |-> FALSE, during |-> {}]

InitLock ==
    /\ lock_inode = 0
    /\ inodes = 0
    /\ flock_owner = [i \in 1..MaxInodes |-> 0]
    /\ file_handle = [p \in Procs |-> 0]
    /\ locked = [p \in Procs |-> FALSE]
    /\ lock_pc = [p \in Procs |-> "idle"]
    /\ in_use = [p \in Procs |-> FALSE]
    /\ mu = "free"
    /\ commits = [t \in Threads |-> NoCommit]
    /\ is_merging = FALSE
    /\ merges = [t \in Threads |-> NoMerge]
    /\ puts = [t \in Threads |-> NoPut]

\* FileLock.acquire: open(self.lock_file_path, 'wb') opens the file the path
\* names, creating it when the path names none
acquire_open(p) ==
    IF lock_inode = 0
    THEN /\ inodes < MaxInodes
         /\ inodes' = inodes + 1
         /\ lock_inode' = inodes + 1
         /\ file_handle' = [file_handle EXCEPT ![p] = inodes + 1]
    ELSE /\ file_handle' = [file_handle EXCEPT ![p] = lock_inode]
         /\ UNCHANGED <<lock_inode, inodes>>

\* DB.__init__ calls file_lock.acquire(): the open of the lock file
AcquireOpen(p) ==
    /\ lock_pc[p] = "idle"
    /\ ~locked[p]
    /\ acquire_open(p)
    /\ lock_pc' = [lock_pc EXCEPT ![p] = "opened"]
    /\ in_use' = [in_use EXCEPT ![p] = FALSE]
    /\ UNCHANGED <<flock_owner, locked, dataVars, muVars>>

\* FileLock.acquire: flock(LOCK_EX | LOCK_NB); when it raises the handle is
\* closed, acquire returns False and DB.__init__ raises ErrDatabaseIsUsing
\* (its handler calls release, which returns at once: locked is False)
AcquireFlock(p) ==
    /\ lock_pc[p] = "opened"
    /\ IF flock_owner[file_handle[p]] = 0
       THEN /\ flock_owner' = [flock_owner EXCEPT ![file_handle[p]] = p]
            /\ locked' = [locked EXCEPT ![p] = TRUE]
            /\ lock_pc' = [lock_pc EXCEPT ![p] = "held"]
            /\ UNCHANGED <<file_handle, in_use>>
       ELSE /\ file_handle' = [file_handle EXCEPT ![p] = 0]
            /\ in_use' = [in_use EXCEPT ![p] = TRUE]
            /\ lock_pc' = [lock_pc EXCEPT ![p] = "idle"]
            /\ UNCHANGED <<flock_owner, locked>>
    /\ UNCHANGED <<lock_inode, inodes, dataVars, muVars>>

\* DB.close calls file_lock.release(): flock(LOCK_UN)
ReleaseUnlock(p) ==
    /\ lock_pc[p] = "held"
    /\ locked[p]
    /\ flock_owner' = [flock_owner EXCEPT ![file_handle[p]] = 0]
    /\ lock_pc' = [lock_pc EXCEPT ![p] = "unlocked"]
    /\ UNCHANGED <<lock_inode, inodes, file_handle, locked, in_use, dataVars, muVars>>

\* FileLock.release: self.file_handle.close()
ReleaseClose(p) ==
    /\ lock_pc[p] = "unlocked"
    /\ file_handle' = [file_handle EXCEPT ![p] = 0]
    /\ lock_pc' = [lock_pc EXCEPT ![p] = "closed"]
    /\ UNCHANGED <<lock_inode, inodes, flock_owner, locked, in_use, dataVars, muVars>>

\* FileLock.release: os.remove(self.lock_file_path) unlinks whatever file the
\* path names now (an error is swallowed), then locked = False
ReleaseRemove(p) ==
    /\ lock_pc[p] = "closed"
    /\ lock_inode' = 0
    /\ locked' = [locked EXCEPT ![p] = FALSE]
    /\ lock_pc' = [lock_pc EXCEPT ![p] = "idle"]
    /\ UNCHANGED <<inodes, flock_owner, file_handle, in_use, dataVars, muVars>>

\* process p has the directory open: its acquire returned True and its
\* release has not begun
HoldsLock(p) == lock_pc[p] = "held"

\* ------------------------------------------------------- I/O managers
\* FileIOManager.write: the file is open in mode "ab+", the bytes go to EOF
file_write(f, b) == [file |-> f.file \o b, ret |-> Len(b)]

\* FileIOManager.size
file_size(f) == Len(f.file)

\* FileIOManager.read into a buffer of n bytes: the bytes it fills
file_read(f, n, offset) ==
    SubSeq(f.file, offset + 1, IF offset + n < Len(f.file) THEN offset + n ELSE Len(f.file))

\* MMapIOManager._grow: the old mapping is closed; fd is open in mode "ab+",
\* so the byte written after seek(new_size - 1) goes to EOF; size_value is
\* set; mmap.mmap with a length beyond the file size extends the file on
\* some platforms and raises ValueError on the others
mmap_grow(m, new_size, extends) ==
    LET file == m.file \o <<0>>
    IN  IF new_size <= Len(file)
        THEN [file |-> file, size_value |-> new_size, mmap |-> new_size,
              ret |-> 0, raised |-> "none"]
        ELSE IF extends
        THEN [file |-> file \o [i \in 1..(new_size - Len(file)) |-> 0],
              size_value |-> new_size, mmap |-> new_size, ret |-> 0, raised |-> "none"]
        ELSE [file |-> file, size_value |-> new_size, mmap |-> -1,
              ret |-> 0, raised |-> "ValueError"]

\* MMapIOManager.write; mmap is the mapped length, 0 for None, -1 for a closed
\* mapping; ret is what the call returns, raised the exception it raises
mmap_write(m, b, extends) ==
    LET current_size == m.size_value
        new_size == current_size + Len(b)
        g == IF current_size < new_size THEN mmap_grow(m, new_size, extends)
             ELSE [m EXCEPT !.ret = 0]
    IN  IF g.raised # "none" THEN g
        ELSE IF g.mmap = 0 THEN [g EXCEPT !.raised = "AttributeError"]
        ELSE [g EXCEPT !.file = [i \in 1..Len(g.file) |->
                                    IF i > current_size /\ i <= new_size
                                    THEN b[i - current_size] ELSE g.file[i]],
                       !.ret = Len(b)]

\* MMapIOManager.size
mmap_size(m) == m.size_value

\* MMapIOManager.read into a buffer of n bytes: the bytes it fills
mmap_read(m, n, offset) ==
    IF offset >= m.size_value THEN <<>>
    ELSE IF m.mmap = 0 THEN <<>>
    ELSE LET read_size == IF n < m.size_value - offset THEN n ELSE m.size_value - offset
         IN  SubSeq(m.file, offset + 1, offset + read_size)

\* IOManager.new_io_manager of each type on a file that does not exist
NewIo(extends) ==
    [extends |-> extends, chunks |-> <<>>,
     std |-> [file |-> <<>>, ret |-> 0],
     mm |-> [file |-> <<>>, size_value |-> 0, mmap |-> 0, ret |-> 0, raised |-> "none"]]

\* write(b) on both managers
IoWrite(b) ==
    /\ Len(io.chunks) < MaxChunks
    \* a manager whose write raised is not used again
    /\ io.mm.raised = "none"
    /\ io' = [io EXCEPT !.chunks = Append(@, b),
                        !.std = file_write(@, b),
                        !.mm = mmap_write(@, b, io.extends)]
    /\ UNCHANGED <<dataVars, fileLockVars, mu, commits, mergeVars, puts>>

\* ------------------------------------------------------------------ Init
\* DB.__init__ on a directory that does not exist yet, and two I/O managers on
\* new files; extends says what mmap.mmap does with a length beyond the file
InitOn(sw, extends) ==
    /\ io = NewIo(extends)
    /\ files = (1 :> <<>>)
    /\ aux = {}
    /\ seq_no_file = -1
    /\ index_type \in IndexTypes
    /\ sync_writes = sw
    /\ is_closed = FALSE
    /\ file_ids = <<1>>
    /\ active_file = 1
    /\ write_offset = 0
    /\ older_files = {}
    /\ synced = (1 :> 0)
    /\ index = EmptyIndex
    /\ seq_no = 0
    /\ reclaim_size = 0
    /\ bytes_write = 0
    /\ batch = NoBatch
    /\ kv = NoView
    /\ last_op = "init"
    /\ closed_view = NoView
    /\ txn = NoTxn
    /\ unfinished = {}
    /\ opens = 0
    /\ crashed = FALSE
    /\ corrupt_at = NoPos
    /\ raised = NoRaise
    /\ buffered = <<>>
    /\ InitLock

\* the options of the runs: sync_writes is false unless stated
InitWith(sw) == InitOn(sw, FALSE)
Init == InitWith(FALSE)
InitSyncWrites == InitWith(TRUE)
\* the I/O managers on either kind of platform
InitIo == \E extends \in BOOLEAN : InitOn(FALSE, extends)

\* the sync policy of put and delete (db.py:185): sync_writes is false
sync_due(bw) == sync_writes \/ (BytesPerSync > 0 /\ bw >= BytesPerSync)
sync_policy(bw) == IF sync_due(bw) THEN 0 ELSE bw
\* the log after the sync that put and delete end with, when one is due
sync_if_due(L, bw) == IF sync_due(bw) THEN sync(L) ELSE L

SetLog(L) ==
    /\ files' = L.files
    /\ file_ids' = L.file_ids
    /\ active_file' = L.active_file
    /\ write_offset' = L.write_offset
    /\ older_files' = L.older_files
    /\ synced' = L.synced

\* DB.put after 'if self.is_closed: raise ErrDatabaseClosed()'
put(key, value) ==
    /\ key # <<>>
    /\ TotalRecords < MaxRecords
    /\ LET a == append_log_record(Log, Acked(encode(NORMAL, key, value),
                                              [kv EXCEPT ![key] = value]))
           old_pos == index[key]
       IN  /\ SetLog(sync_if_due(a.L, bytes_write + Len(key) + Len(value)))
           /\ index' = [index EXCEPT ![key] = a.pos]
           /\ reclaim_size' = reclaim_size + old_pos.size
           /\ bytes_write' = sync_policy(bytes_write + Len(key) + Len(value))
           /\ kv' = [kv EXCEPT ![key] = value]
    /\ last_op' = "put"
    /\ txn' = NoTxn
    /\ batch' = Dropped(batch)
    /\ UNCHANGED <<aux, seq_no_file, index_type, sync_writes, is_closed, seq_no,
                   closed_view, unfinished, opens, envVars>>
    /\ raised' = NoRaise

\* DB.put
Put(key, value) ==
    /\ ~is_closed
    /\ put(key, value)
    /\ UNCHANGED <<lockVars, buffered>>

\* (variant: delete never takes the early return)
key_absent_never(key) == FALSE
\* DB.delete: 'if not self.index.get(key): return'
key_absent(key) == index[key] = NoPos

\* DB.delete
Delete(key) ==
    /\ ~is_closed
    /\ key # <<>>
    /\ IF key_absent(key)
       THEN UNCHANGED <<logVars, index, reclaim_size, bytes_write, kv, txn>>
       ELSE /\ TotalRecords < MaxRecords
            /\ LET a == append_log_record(Log, Acked(encode(DELETED, key, <<>>),
                                                      [kv EXCEPT ![key] = NoneVal]))
                   old_pos == index[key]
               IN  /\ SetLog(sync_if_due(a.L, bytes_write + Len(key)))
                   /\ index' = [index EXCEPT ![key] = NoPos]
                   /\ reclaim_size' = reclaim_size + old_pos.size
                   /\ bytes_write' = sync_policy(bytes_write + Len(key))
                   /\ kv' = [kv EXCEPT ![key] = NoneVal]
            /\ txn' = NoTxn
    /\ last_op' = "delete"
    /\ batch' = Dropped(batch)
    /\ UNCHANGED <<aux, seq_no_file, index_type, sync_writes, is_closed, seq_no,
                   closed_view, unfinished, opens, envVars>>
    /\ raised' = NoRaise
    /\ UNCHANGED <<lockVars, buffered>>

\* DB.close
Close ==
    /\ ~is_closed
    /\ seq_no_file' = IF index_type = "BTREE" THEN seq_no ELSE seq_no_file
    /\ active_file' = 0
    /\ older_files' = {}
    /\ is_closed' = TRUE
    /\ closed_view' = View
    /\ crashed' = FALSE
    /\ last_op' = "close"
    /\ batch' = Dropped(batch)
    /\ UNCHANGED <<files, aux, index_type, sync_writes, file_ids, write_offset, synced, index,
                   seq_no, reclaim_size, bytes_write, kv, histVars, corrupt_at>>
    /\ raised' = NoRaise
    /\ UNCHANGED <<lockVars, buffered>>

\* DB._load_seq_no
load_seq_no == IF seq_no_file = -1 THEN 0 ELSE seq_no_file

\* DB.__init__ on the existing directory, when load_data_files succeeds; the
\* directory is opened at most n times
OpenWithin(n) ==
    /\ is_closed
    /\ ~load_data_files_raises
    /\ opens < n
    /\ opens' = opens + 1
    /\ LET ids0 == SortIds(DOMAIN files)
           ids == IF ids0 = <<>> THEN <<1>> ELSE ids0
           fs == IF ids0 = <<>> THEN OpenDataFile(files, 1) ELSE files
           rec == load_index_from_files(fs, ids,
                     [index |-> EmptyIndex, reclaim_size |-> 0, bytes_write |-> 0])
           act == Last(ids)
           older == {ids[i] : i \in 1..(Len(ids) - 1)}
           view == [k \in Keys |-> get_in(fs, act, older, rec.index, k)]
       IN  /\ files' = fs
           /\ file_ids' = ids
           /\ active_file' = act
           /\ older_files' = older
           /\ synced' = synced_on(fs)
           /\ write_offset' = FileSize(fs[act])
           /\ index' = rec.index
           /\ reclaim_size' = rec.reclaim_size
           /\ bytes_write' = rec.bytes_write
           /\ kv' = view
    /\ seq_no' = IF index_type = "BTREE" THEN load_seq_no ELSE 0
    /\ is_closed' = FALSE
    /\ batch' = NoBatch
    /\ closed_view' = NoView
    /\ last_op' = "open"
    /\ UNCHANGED <<aux, seq_no_file, index_type, sync_writes, txn, unfinished, envVars>>
    /\ raised' = NoRaise
    /\ UNCHANGED <<lockVars, buffered>>

Open == OpenWithin(MaxOpens)

\* DB.__init__ on the directory, once after a crash and once after a close
Reopen == OpenWithin(MaxReopens)

\* DB.__init__ when load_data_files raises: no instance is created
OpenFail ==
    /\ is_closed
    /\ load_data_files_raises
    /\ last_op' = "open_failed"
    /\ batch' = NoBatch
    /\ UNCHANGED <<dirVars, index_type, sync_writes, is_closed, file_ids, active_file, write_offset,
                   older_files, synced, index, seq_no, reclaim_size, bytes_write, kv,
                   closed_view, histVars, envVars>>
    /\ raised' = Raise("open", NoneVal, "ValueError")
    /\ UNCHANGED <<lockVars, buffered>>

\* ----------------------------------------------------------------- batch
\* DB.new_batch
new_batch ==
    /\ ~is_closed
    \* the caller works with one batch at a time
    /\ ~batch.exists \/ batch.is_committed
    /\ batch' = [exists |-> TRUE, writes |-> <<>>, is_committed |-> FALSE]
    /\ UNCHANGED <<last_op, dirVars, index_type, sync_writes, is_closed, file_ids, active_file, write_offset,
                   older_files, synced, index, seq_no, reclaim_size, bytes_write, kv,
                   closed_view, histVars, envVars>>
    /\ raised' = NoRaise
    /\ UNCHANGED lockVars

NewBatch == new_batch /\ UNCHANGED buffered
\* DB.new_batch, the log of calls started
NewBatchLogged == new_batch /\ buffered' = <<>>

\* self.writes[key] = value on an insertion-ordered dict
\* (variant: an entry that exists is kept)
dict_set_keeps_first(writes, key, value) ==
    IF \E i \in 1..Len(writes) : writes[i].key = key
    THEN writes
    ELSE Append(writes, [key |-> key, value |-> value])
dict_set(writes, key, value) ==
    IF \E i \in 1..Len(writes) : writes[i].key = key
    THEN [i \in 1..Len(writes) |->
            IF writes[i].key = key THEN [key |-> key, value |-> value] ELSE writes[i]]
    ELSE Append(writes, [key |-> key, value |-> value])

\* Batch.put
batch_put(key, value) ==
    /\ batch.exists
    /\ ~batch.is_committed
    /\ key # <<>>
    /\ batch' = [batch EXCEPT !.writes = dict_set(@, key, value)]
    /\ UNCHANGED <<last_op, dirVars, index_type, sync_writes, is_closed, file_ids, active_file, write_offset,
                   older_files, synced, index, seq_no, reclaim_size, bytes_write, kv,
                   closed_view, histVars, envVars>>
    /\ raised' = NoRaise
    /\ UNCHANGED lockVars

BatchPut(key, value) == batch_put(key, value) /\ UNCHANGED buffered
\* Batch.put, the call logged
BatchPutLogged(key, value) ==
    batch_put(key, value) /\ buffered' = Append(buffered, [key |-> key, value |-> value])

\* Batch.delete
batch_delete(key) ==
    /\ batch.exists
    /\ ~batch.is_committed
    /\ key # <<>>
    /\ batch' = [batch EXCEPT !.writes = dict_set(@, key, NoneVal)]
    /\ UNCHANGED <<last_op, dirVars, index_type, sync_writes, is_closed, file_ids, active_file, write_offset,
                   older_files, synced, index, seq_no, reclaim_size, bytes_write, kv,
                   closed_view, histVars, envVars>>
    /\ raised' = NoRaise
    /\ UNCHANGED lockVars

BatchDelete(key) == batch_delete(key) /\ UNCHANGED buffered
\* Batch.delete, the call logged
BatchDeleteLogged(key) ==
    batch_delete(key) /\ buffered' = Append(buffered, [key |-> key, value |-> NoneVal])

\* Batch.commit: the transaction id
txn_id_of(sn) == IF index_type = "BTREE" THEN sn + 1 ELSE sn

\* Batch.commit: the records it appends, in order
commit_records(writes, txn_id) ==
    LET data == [i \in 1..Len(writes) |->
                    IF writes[i].value = NoneVal
                    THEN encode(DELETED, writes[i].key, <<>>)
                    ELSE encode(NORMAL, writes[i].key, writes[i].value)]
    IN  (IF txn_id > 0 THEN <<encode(TXNSTART, str(txn_id), <<>>)>> ELSE <<>>)
        \o data
        \o (IF txn_id > 0 THEN <<encode(TXNFINISHED, str(txn_id), <<>>)>> ELSE <<>>)

\* history annotation: the last record of a commit completes the write
AckLast(recs, view) == [i \in 1..Len(recs) |->
                          IF i = Len(recs) THEN Acked(recs[i], view) ELSE recs[i]]

\* Batch.commit: the successive calls of db._append_log_record
RECURSIVE append_all(_, _, _)
append_all(L, recs, poss) ==
    IF recs = <<>> THEN [L |-> L, poss |-> poss]
    ELSE LET a == append_log_record(L, recs[1])
         IN  append_all(a.L, Tail(recs), Append(poss, a.pos))

\* the index update loop leaving out the deletes
RECURSIVE apply_positions_puts_only(_, _, _)
apply_positions_puts_only(acc, writes, poss) ==
    IF writes = <<>> THEN acc
    ELSE LET key == writes[1].key
             old_pos == acc.index[key]
             acc1 == IF writes[1].value # NoneVal
                     THEN [index |-> [acc.index EXCEPT ![key] = poss[1]],
                           reclaim_size |-> acc.reclaim_size + old_pos.size]
                     ELSE acc
         IN  apply_positions_puts_only(acc1, Tail(writes), Tail(poss))

\* (variant: the loop does not count the superseded records)
RECURSIVE apply_positions_no_reclaim(_, _, _)
apply_positions_no_reclaim(acc, writes, poss) ==
    IF writes = <<>> THEN acc
    ELSE LET key == writes[1].key
             acc1 == [index |-> [acc.index EXCEPT ![key] =
                                   IF writes[1].value # NoneVal THEN poss[1] ELSE NoPos],
                      reclaim_size |-> acc.reclaim_size]
         IN  apply_positions_no_reclaim(acc1, Tail(writes), Tail(poss))

\* Batch.commit: the index update loop (batch.py:122-133)
RECURSIVE apply_positions(_, _, _)
apply_positions(acc, writes, poss) ==
    IF writes = <<>> THEN acc
    ELSE LET key == writes[1].key
             old_pos == acc.index[key]
             acc1 == [index |-> [acc.index EXCEPT ![key] =
                                   IF writes[1].value # NoneVal THEN poss[1] ELSE NoPos],
                      reclaim_size |-> acc.reclaim_size + old_pos.size]
         IN  apply_positions(acc1, Tail(writes), Tail(poss))

\* the plain map after the writes of a batch
RECURSIVE apply_writes(_, _)
apply_writes(m, writes) ==
    IF writes = <<>> THEN m
    ELSE apply_writes([m EXCEPT ![writes[1].key] = writes[1].value], Tail(writes))

\* (variant: the empty batch takes a transaction id)
CommitEmptyTakesId ==
    /\ batch.exists
    /\ ~batch.is_committed
    /\ batch.writes = <<>>
    /\ batch' = [batch EXCEPT !.is_committed = TRUE]
    /\ seq_no' = txn_id_of(seq_no)
    /\ UNCHANGED <<last_op, dirVars, index_type, sync_writes, is_closed, file_ids, active_file, write_offset,
                   older_files, synced, index, reclaim_size, bytes_write, kv,
                   closed_view, histVars, envVars>>
    /\ raised' = NoRaise
    /\ UNCHANGED <<lockVars, buffered>>

\* Batch.commit of an empty batch
CommitEmpty ==
    /\ batch.exists
    /\ ~batch.is_committed
    /\ batch.writes = <<>>
    /\ batch' = [batch EXCEPT !.is_committed = TRUE]
    /\ UNCHANGED <<last_op, dirVars, index_type, sync_writes, is_closed, file_ids, active_file, write_offset,
                   older_files, synced, index, seq_no, reclaim_size, bytes_write, kv,
                   closed_view, histVars, envVars>>
    /\ raised' = NoRaise
    /\ UNCHANGED <<lockVars, buffered>>

\* Batch.commit, every append succeeding
Commit ==
    /\ batch.exists
    /\ ~batch.is_committed
    /\ batch.writes # <<>>
    /\ LET txn_id == txn_id_of(seq_no)
           recs == commit_records(batch.writes, txn_id)
           n == Len(batch.writes)
           first == IF txn_id > 0 THEN 2 ELSE 1
       IN  /\ TotalRecords + Len(recs) <= MaxRecords
           /\ txn_id <= MaxSeqNo
           /\ LET a == append_all(Log, AckLast(recs, apply_writes(kv, batch.writes)), <<>>)
                  poss == SubSeq(a.poss, first, first + n - 1)
                  upd == apply_positions([index |-> index, reclaim_size |-> reclaim_size],
                                         batch.writes, poss)
              IN  /\ SetLog(IF sync_writes THEN sync(a.L) ELSE a.L)
                  /\ seq_no' = IF txn_id > 0 THEN txn_id ELSE seq_no
                  /\ index' = upd.index
                  /\ reclaim_size' = upd.reclaim_size
                  /\ kv' = apply_writes(kv, batch.writes)
                  /\ txn' = [puts |-> {[key |-> batch.writes[i].key, pos |-> poss[i]] :
                                         i \in {j \in 1..n : batch.writes[j].value # NoneVal}},
                             dels |-> {batch.writes[i].key :
                                         i \in {j \in 1..n : batch.writes[j].value = NoneVal}},
                             recs |-> {poss[i] : i \in 1..n},
                             fin |-> Last(a.poss)]
    /\ batch' = [batch EXCEPT !.is_committed = TRUE]
    /\ last_op' = "commit"
    /\ UNCHANGED <<aux, seq_no_file, index_type, sync_writes, is_closed, bytes_write, closed_view,
                   unfinished, opens, envVars>>
    /\ raised' = NoRaise
    /\ UNCHANGED <<lockVars, buffered>>

\* Batch.commit when the j-th append raises after its rollover, nothing of
\* the record being written; the handler then tries to append TXN_ABORT
CommitFail(j, abort_ok) ==
    /\ batch.exists
    /\ ~batch.is_committed
    /\ batch.writes # <<>>
    /\ LET txn_id == txn_id_of(seq_no)
           recs == commit_records(batch.writes, txn_id)
           n == Len(batch.writes)
           first == IF txn_id > 0 THEN 2 ELSE 1
       IN  /\ j \in 1..Len(recs)
           /\ TotalRecords + j <= MaxRecords
           /\ txn_id <= MaxSeqNo
           /\ LET a == append_all(Log, SubSeq(recs, 1, j - 1), <<>>)
                  L1 == rollover(a.L)
                  L2 == IF txn_id > 0 /\ abort_ok
                        THEN append_log_record(L1, encode(TXNABORT, str(txn_id), <<>>)).L
                        ELSE L1
              IN  /\ SetLog(L2)
                  /\ unfinished' = unfinished \cup
                        {a.poss[i] : i \in {x \in 1..Len(a.poss) : x >= first /\ x < first + n}}
    /\ last_op' = "commit_failed"
    /\ txn' = NoTxn
    /\ UNCHANGED <<aux, seq_no_file, index_type, sync_writes, is_closed, index, seq_no, reclaim_size,
                   bytes_write, batch, kv, closed_view, opens, envVars>>
    /\ raised' = Raise("commit", NoneVal, "Exception")
    /\ UNCHANGED <<lockVars, buffered>>

\* ----------------------------------------------------------------- merge
\* the merge loop without the advance of the write position
RECURSIVE merge_records_fixed_offset(_, _, _)
merge_records_fixed_offset(keys, offset, acc) ==
    IF keys = <<>> THEN acc
    ELSE LET key == keys[1]
             value == get(key)
             record == Acked(encode(NORMAL, key, IF value = NoneVal THEN <<>> ELSE value), kv)
             new_pos == [file_id |-> 1, offset |-> offset, size |-> record.size]
         IN  merge_records_fixed_offset(Tail(keys), offset,
                 [data |-> Append(acc.data, record),
                  new_pos_map |-> [acc.new_pos_map EXCEPT ![key] = new_pos]])

\* DB.merge: the records written to merge.data, one per live key in
\* iteration order, with their new positions in segment 1
RECURSIVE merge_records(_, _, _)
merge_records(keys, offset, acc) ==
    IF keys = <<>> THEN acc
    ELSE LET key == keys[1]
             value == get(key)
             record == Acked(encode(NORMAL, key, IF value = NoneVal THEN <<>> ELSE value), kv)
             new_pos == [file_id |-> 1, offset |-> offset, size |-> record.size]
         IN  merge_records(Tail(keys), offset + record.size,
                 [data |-> Append(acc.data, record),
                  new_pos_map |-> [acc.new_pos_map EXCEPT ![key] = new_pos]])

\* the merge renaming merge.data without removing the old segments
merge_files_keeps_old(fs, ids, data) ==
    [f \in DOMAIN fs \cup {1} |-> IF f = 1 THEN data ELSE fs[f]]

\* DB.merge: the segment files after the old ones are removed and merge.data
\* is renamed to 000000001.data (db.py:654-666)
merge_files(fs, ids, data) ==
    LET kept == {f \in DOMAIN fs : \A i \in 1..Len(ids) : ids[i] # f}
    IN  [f \in kept \cup {1} |-> IF f = 1 THEN data ELSE fs[f]]

\* DB.merge: the segment files when the removal loop (db.py:654-660) has
\* removed the first n ids of file_ids
merge_files_interrupted(fs, ids, n) ==
    LET gone == {ids[i] : i \in 1..n}
    IN  [f \in DOMAIN fs \ gone |-> fs[f]]

\* DB.stat: data_files_num
data_files_num == Cardinality(older_files) + (IF active_file # 0 THEN 1 ELSE 0)

\* DB.merge: the body that runs under DB.mu
merge ==
    /\ ~is_closed
    /\ \E keys \in Orders(list_keys) :
       LET m == merge_records(keys, 0, [data |-> <<>>, new_pos_map |-> EmptyIndex])
           fs == merge_files(files, file_ids, m.data)
       IN  /\ files' = fs
           /\ file_ids' = <<1>>
           /\ active_file' = 1
           /\ older_files' = {}
           \* merge.data is fsynced before it is renamed (db.py:641-642)
           /\ synced' = [synced_on(fs) EXCEPT ![1] = FileSize(m.data)]
           /\ write_offset' = FileSize(m.data)
           /\ index' = [k \in Keys |-> IF m.new_pos_map[k] # NoPos
                                       THEN m.new_pos_map[k] ELSE index[k]]
    /\ aux' = aux \cup {"merge_finished"}
    /\ reclaim_size' = 0
    /\ last_op' = "merge"
    /\ txn' = NoTxn
    /\ unfinished' = {}
    /\ corrupt_at' = NoPos
    /\ batch' = Dropped(batch)
    /\ UNCHANGED <<seq_no_file, index_type, sync_writes, is_closed, seq_no, bytes_write, kv,
                   closed_view, opens, crashed>>
    /\ raised' = NoRaise

\* DB.merge
Merge == merge /\ UNCHANGED <<lockVars, buffered>>

\* ----------------------------------------------------------- environment
\* the largest segment id on disk
FinalSegment == CHOOSE f \in DOMAIN files : \A g \in DOMAIN files : g <= f

\* the first t bytes of a segment file
RECURSIVE truncate(_, _)
truncate(s, t) ==
    IF s = <<>> \/ t <= 0 THEN <<>>
    ELSE IF s[1].size <= t THEN <<s[1]>> \o truncate(Tail(s), t - s[1].size)
    ELSE <<[s[1] EXCEPT !.size = t]>>

\* the lengths to which a crash is taken to cut a segment: for every entry,
\* just before it, inside its header, and after its header inside its body
\* (read_log_record tells no other lengths apart), and the full length
TruncPoints(s) ==
    {FileSize(s)} \cup
    UNION {{StartOffset(s, i), StartOffset(s, i) + 1, StartOffset(s, i) + HEADER_SIZE} :
              i \in 1..Len(s)}

\* the record at pos is completely inside the final segment cut to t bytes
OnDisk(pos, f, t) == pos.file_id < f \/ (pos.file_id = f /\ pos.offset + pos.size <= t)

\* the entries of all segments that are completely on disk, in log order
RECURSIVE whole_entries(_, _)
whole_entries(fs, ids) ==
    IF ids = <<>> THEN <<>>
    ELSE SelectSeq(fs[ids[1]], LAMBDA e : e.size = total_size(e)) \o whole_entries(fs, Tail(ids))

\* the view after the longest prefix of the acknowledged writes whose
\* records are completely on disk
prefix_view(fs) ==
    LET es == SelectSeq(whole_entries(fs, SortIds(DOMAIN fs)), LAMBDA e : e.ack.acked)
    IN  IF es = <<>> THEN NoView ELSE Last(es).ack.view

\* the process dies without close(): the final segment keeps its first t bytes
Crash(t) ==
    /\ ~is_closed
    /\ ~crashed
    \* only crashes that a reopen can follow are explored
    /\ opens < MaxOpens
    /\ corrupt_at = NoPos
    /\ files' = [files EXCEPT ![FinalSegment] = truncate(@, t)]
    /\ synced' = synced_on([files EXCEPT ![FinalSegment] = truncate(@, t)])
    /\ closed_view' = prefix_view([files EXCEPT ![FinalSegment] = truncate(@, t)])
    /\ unfinished' =
          {p \in unfinished : OnDisk(p, FinalSegment, t)} \cup
          (IF txn.fin # NoPos /\ index_type = "BTREE" /\ ~OnDisk(txn.fin, FinalSegment, t)
           THEN {p \in txn.recs : OnDisk(p, FinalSegment, t)} ELSE {})
    /\ crashed' = TRUE
    \* the instance is gone with the process
    /\ is_closed' = TRUE
    /\ active_file' = 0
    /\ older_files' = {}
    /\ file_ids' = <<>>
    /\ write_offset' = 0
    /\ index' = EmptyIndex
    /\ seq_no' = 0
    /\ reclaim_size' = 0
    /\ bytes_write' = 0
    /\ batch' = NoBatch
    /\ kv' = NoView
    /\ txn' = NoTxn
    /\ last_op' = "crash"
    /\ UNCHANGED <<aux, seq_no_file, index_type, sync_writes, opens, corrupt_at>>
    /\ raised' = NoRaise
    /\ UNCHANGED <<lockVars, buffered>>

\* a byte of the i-th record of segment f is flipped while the database is closed
Corrupt(f, i) ==
    /\ is_closed
    /\ ~crashed
    /\ corrupt_at = NoPos
    /\ last_op = "close"
    /\ f \in DOMAIN files
    /\ i \in 1..Len(files[f])
    /\ files[f][i].crc_ok
    /\ files' = [files EXCEPT ![f][i].crc_ok = FALSE]
    /\ corrupt_at' = [file_id |-> f, offset |-> StartOffset(files[f], i),
                      size |-> files[f][i].size]
    /\ last_op' = "corrupt"
    /\ UNCHANGED <<aux, seq_no_file, index_type, sync_writes, is_closed, file_ids, active_file,
                   write_offset, older_files, synced, index, seq_no, reclaim_size, bytes_write,
                   batch, kv, closed_view, histVars, crashed>>
    /\ raised' = NoRaise
    /\ UNCHANGED <<lockVars, buffered>>

\* DB.merge interrupted by the death of the process: merge.data is written
\* (db.py:600-641), the first n segments of file_ids are removed
\* (db.py:654-660) and, when renamed, merge.data has become segment 1
\* (db.py:662-666); the marker merge_finished.data is not written yet
MergeCrash(n, renamed) ==
    /\ ~is_closed
    /\ ~crashed
    /\ corrupt_at = NoPos
    /\ n \in 0..Len(file_ids)
    /\ renamed => n = Len(file_ids)
    /\ \E keys \in Orders(list_keys) :
       LET m == merge_records(keys, 0, [data |-> <<>>, new_pos_map |-> EmptyIndex])
       IN  /\ files' = IF renamed THEN merge_files(files, file_ids, m.data)
                       ELSE merge_files_interrupted(files, file_ids, n)
           /\ synced' = IF renamed
                        THEN [synced_on(merge_files(files, file_ids, m.data))
                                EXCEPT ![1] = FileSize(m.data)]
                        ELSE synced_on(merge_files_interrupted(files, file_ids, n))
    /\ aux' = IF renamed THEN aux ELSE aux \cup {"merge"}
    /\ closed_view' = View
    /\ crashed' = TRUE
    \* the instance is gone with the process
    /\ is_closed' = TRUE
    /\ active_file' = 0
    /\ older_files' = {}
    /\ file_ids' = <<>>
    /\ write_offset' = 0
    /\ index' = EmptyIndex
    /\ seq_no' = 0
    /\ reclaim_size' = 0
    /\ bytes_write' = 0
    /\ batch' = NoBatch
    /\ kv' = NoView
    /\ txn' = NoTxn
    /\ unfinished' = {}
    /\ last_op' = "merge_crash"
    /\ UNCHANGED <<seq_no_file, index_type, sync_writes, opens, corrupt_at>>
    /\ raised' = NoRaise
    /\ UNCHANGED <<lockVars, buffered>>


\* ------------------------------------------- calls that raise at their checks
\* the keys a caller may pass: the keys of the model and the empty key
CallKeys == Keys \cup {<<>>}

\* an instance exists: open, or closed by close()
has_instance == ~is_closed \/ last_op \in {"close", "close_again"}

\* a raise before anything was touched: only the outcome is new
Rejected(op, key, err) ==
    /\ raised' = Raise(op, key, err)
    /\ UNCHANGED <<dirVars, index_type, sync_writes, is_closed, file_ids, active_file, write_offset,
                   older_files, synced, index, seq_no, reclaim_size, bytes_write, batch, kv,
                   last_op, closed_view, histVars, envVars>>
    /\ UNCHANGED <<lockVars, buffered>>

\* DB.put, DB.get and DB.delete up to their second check: is_closed first,
\* then the empty key
KeyCalls == {"put", "get", "delete"}
key_check_key_first(key) ==
    IF key = <<>> THEN "ErrKeyIsEmpty"
    ELSE IF is_closed THEN "ErrDatabaseClosed"
    ELSE ""
key_check_value_error(key) ==
    IF is_closed THEN "ErrDatabaseClosed"
    ELSE IF key = <<>> THEN "ValueError"
    ELSE ""
key_check(key) ==
    IF is_closed THEN "ErrDatabaseClosed"
    ELSE IF key = <<>> THEN "ErrKeyIsEmpty"
    ELSE ""
KeyCallRaises(op, key) ==
    /\ has_instance
    /\ key_check(key) # ""
    /\ Rejected(op, key, key_check(key))

\* the other methods of DB that begin with the is_closed check
ClosedCalls == {"stat", "backup", "fold", "iterator", "list_keys", "merge", "new_batch"}
closed_check == IF is_closed THEN "ErrDatabaseClosed" ELSE ""
ClosedCallRaises(op) ==
    /\ has_instance
    /\ closed_check # ""
    /\ Rejected(op, NoneVal, closed_check)

\* DB.close on a closed instance: returns at once
CloseAgain ==
    /\ has_instance
    /\ is_closed
    /\ last_op' = "close_again"
    /\ raised' = NoRaise
    /\ UNCHANGED <<dirVars, index_type, sync_writes, is_closed, file_ids, active_file, write_offset,
                   older_files, synced, index, seq_no, reclaim_size, bytes_write, batch, kv,
                   closed_view, histVars, envVars>>
    /\ UNCHANGED <<lockVars, buffered>>

\* Batch.put and Batch.delete up to their second check: is_committed first,
\* then the empty key
BatchKeyCalls == {"batch_put", "batch_delete"}
batch_key_check_key_first(key) ==
    IF key = <<>> THEN "ValueError"
    ELSE IF batch.is_committed THEN "ErrBatchClosed"
    ELSE ""
batch_key_check(key) ==
    IF batch.is_committed THEN "ErrBatchClosed"
    ELSE IF key = <<>> THEN "ValueError"
    ELSE ""
BatchKeyCallRaises(op, key) ==
    /\ batch.exists
    /\ batch_key_check(key) # ""
    /\ Rejected(op, key, batch_key_check(key))

\* Batch.commit on a committed batch
commit_check == IF batch.is_committed THEN "ErrBatchClosed" ELSE ""
CommitRaises ==
    /\ batch.exists
    /\ commit_check # ""
    /\ Rejected("commit", NoneVal, commit_check)

\* ------------------------------------------------------- specifications
\* put, delete, close and reopen
NextKV ==
    \/ \E k \in Keys, v \in Values : Put(k, v)
    \/ \E k \in Keys : Delete(k)
    \/ Close
    \/ Open

SpecKV == Init /\ [][NextKV]_vars

\* the operations of a batch on an open database
NextBatchOps ==
    \/ NewBatch
    \/ \E k \in Keys, v \in BatchValues : BatchPut(k, v)
    \/ \E k \in Keys : BatchDelete(k)
    \/ CommitEmpty
    \/ (~is_closed /\ Commit)

\* put, delete and batches in one session
NextBatch ==
    \/ \E k \in Keys, v \in Values : Put(k, v)
    \/ \E k \in Keys : Delete(k)
    \/ NextBatchOps

SpecBatch == Init /\ [][NextBatch]_vars

\* put, delete and batches, close and reopen
NextTxn ==
    \/ NextKV
    \/ NextBatchOps

SpecTxn == Init /\ [][NextTxn]_vars

\* one session of put, delete and batches with failing commits, ended by a
\* crash, and the recovery
NextCrash ==
    \/ (opens = 0 /\ NextBatch)
    \/ \E j \in 1..(2 + Cardinality(Keys)), ok \in BOOLEAN :
          (opens = 0 /\ ~is_closed /\ CommitFail(j, ok))
    \/ \E t \in TruncPoints(files[FinalSegment]) : Crash(t)
    \/ Open

SpecCrash == Init /\ [][NextCrash]_vars

\* put and delete, the death of the process, the open that recovers, put and
\* delete again, close, and the next open
NextTail ==
    \/ \E k \in Keys, v \in BatchValues : Put(k, v)
    \/ \E k \in Keys : Delete(k)
    \/ \E t \in TruncPoints(files[FinalSegment]) : Crash(t)
    \/ Close
    \/ Reopen

SpecTail == Init /\ [][NextTail]_vars

\* put, delete, close, a damaged record, reopen
NextCorrupt ==
    \/ NextKV
    \/ \E f \in 1..MaxRecords, i \in 1..MaxRecords : Corrupt(f, i)

SpecCorrupt == Init /\ [][NextCorrupt]_vars

\* put, delete and merge
NextMerge ==
    \/ NextKV
    \/ Merge
    \/ OpenFail

SpecMerge == Init /\ [][NextMerge]_vars

\* put and delete in one session, a merge that the death of the process
\* interrupts, and the next open
NextMergeCrash ==
    \/ (opens = 0 /\ \E k \in Keys, v \in Values : Put(k, v))
    \/ (opens = 0 /\ \E k \in Keys : Delete(k))
    \/ \E n \in 0..MaxRecords, renamed \in BOOLEAN : MergeCrash(n, renamed)
    \/ Open
    \/ OpenFail

SpecMergeCrash == Init /\ [][NextMergeCrash]_vars

\* several processes opening and closing the directory
NextLock ==
    \/ \E p \in Procs : AcquireOpen(p)
    \/ \E p \in Procs : AcquireFlock(p)
    \/ \E p \in Procs : ReleaseUnlock(p)
    \/ \E p \in Procs : ReleaseClose(p)
    \/ \E p \in Procs : ReleaseRemove(p)

SpecLock == Init /\ [][NextLock]_vars


\* the calls that raise at their checks, on databases of at most ErrRecords
\* records
NextErr ==
    \/ TotalRecords < ErrRecords /\ \E k \in Keys, v \in Values : Put(k, v)
    \/ TotalRecords < ErrRecords /\ \E k \in Keys : Delete(k)
    \/ Close
    \/ CloseAgain
    \/ NewBatch
    \/ \E k \in Keys, v \in BatchValues : BatchPut(k, v)
    \/ \E k \in Keys : BatchDelete(k)
    \/ CommitEmpty
    \/ ~is_closed /\ TotalRecords < ErrRecords /\ Commit
    \/ \E op \in KeyCalls, k \in CallKeys : KeyCallRaises(op, k)
    \/ \E op \in ClosedCalls : ClosedCallRaises(op)
    \/ \E op \in BatchKeyCalls, k \in CallKeys : BatchKeyCallRaises(op, k)
    \/ CommitRaises
SpecErr == Init /\ [][NextErr]_vars

\* batches whose calls of put and delete are logged
NextSameKey ==
    \/ TotalRecords < ErrRecords /\ \E k \in Keys, v \in Values : Put(k, v)
    \/ NewBatchLogged
    \/ Len(buffered) < MaxBuffered /\ \E k \in Keys, v \in BatchValues : BatchPutLogged(k, v)
    \/ Len(buffered) < MaxBuffered /\ \E k \in Keys : BatchDeleteLogged(k)
    \/ ~is_closed /\ TotalRecords <= ErrRecords /\ Commit
SpecSameKey == Init /\ [][NextSameKey]_vars

\* put, delete and batches in one session with sync_writes = true
SpecSync == InitSyncWrites /\ [][NextBatch]_vars

\* Batch.commit when every append succeeds and the final active_file.sync()
\* raises: seq_no and the index are already updated; the handler then tries
\* to append TXN_ABORT, and is_committed stays false
CommitSyncFail(abort_ok) ==
    /\ batch.exists
    /\ ~batch.is_committed
    /\ batch.writes # <<>>
    /\ sync_writes
    /\ LET txn_id == txn_id_of(seq_no)
           recs == commit_records(batch.writes, txn_id)
           n == Len(batch.writes)
           first == IF txn_id > 0 THEN 2 ELSE 1
           aborts == txn_id > 0 /\ abort_ok
       IN  /\ TotalRecords + Len(recs) + (IF aborts THEN 1 ELSE 0) <= MaxRecords
           /\ txn_id <= MaxSeqNo
           /\ LET a == append_all(Log, recs, <<>>)
                  poss == SubSeq(a.poss, first, first + n - 1)
                  upd == apply_positions([index |-> index, reclaim_size |-> reclaim_size],
                                         batch.writes, poss)
                  L2 == IF aborts
                        THEN append_log_record(a.L, encode(TXNABORT, str(txn_id), <<>>)).L
                        ELSE a.L
              IN  /\ SetLog(L2)
                  /\ seq_no' = IF txn_id > 0 THEN txn_id ELSE seq_no
                  /\ index' = upd.index
                  /\ reclaim_size' = upd.reclaim_size
    /\ last_op' = "commit_failed"
    /\ txn' = NoTxn
    /\ UNCHANGED <<aux, seq_no_file, index_type, sync_writes, is_closed, bytes_write, batch,
                   kv, closed_view, unfinished, opens, envVars>>
    /\ raised' = Raise("commit", NoneVal, "Exception")
    /\ UNCHANGED <<lockVars, buffered>>

\* put, delete and batches whose commits succeed or raise, in one session
\* with sync_writes = true, each write starting from at most ErrRecords records
NextCommitFail ==
    \/ TotalRecords < ErrRecords /\ \E k \in Keys, v \in Values : Put(k, v)
    \/ TotalRecords <= ErrRecords /\ \E k \in Keys : Delete(k)
    \/ NewBatch
    \/ \E k \in Keys, v \in BatchValues : BatchPut(k, v)
    \/ \E k \in Keys : BatchDelete(k)
    \/ ~is_closed /\ TotalRecords <= ErrRecords /\ Commit
    \/ \E j \in 1..(2 + Cardinality(Keys)), ok \in BOOLEAN :
          ~is_closed /\ TotalRecords <= ErrRecords /\ CommitFail(j, ok)
    \/ \E ok \in BOOLEAN :
          ~is_closed /\ TotalRecords <= ErrRecords /\ CommitSyncFail(ok)

SpecCommitFail == InitSyncWrites /\ [][NextCommitFail]_vars

\* put, delete, batches and merge in one session, each write starting from
\* at most ErrRecords records
NextReclaim ==
    \/ TotalRecords < ErrRecords /\ \E k \in Keys, v \in Values : Put(k, v)
    \/ TotalRecords <= ErrRecords /\ \E k \in Keys : Delete(k)
    \/ NewBatch
    \/ \E k \in Keys, v \in BatchValues : BatchPut(k, v)
    \/ \E k \in Keys : BatchDelete(k)
    \/ CommitEmpty
    \/ ~is_closed /\ TotalRecords <= ErrRecords /\ Commit
    \/ Merge
SpecReclaim == Init /\ [][NextReclaim]_vars

\* ------------------------------------------------ threads and DB.mu
\* threading.RLock: a thread that does not hold it enters when no thread does
mu_ignored == TRUE
mu_free == mu = "free"

\* the write buffers of the batches that the threads commit: one or two keys
ThreadWrites == {[key |-> k, value |-> v] : k \in Keys, v \in BatchValues \cup {NoneVal}}
ThreadBuffers ==
    {<<w>> : w \in ThreadWrites} \cup
    {b \in {<<w1, w2>> : w1 \in ThreadWrites, w2 \in ThreadWrites} : b[1].key # b[2].key}

\* (variant: put appends and updates the index without taking DB.mu)
ThreadPutUnlocked(key, value) == Put(key, value)

\* DB.put by some thread: the body runs under DB.mu
ThreadPut(key, value) == mu_free /\ Put(key, value)

\* DB.delete by some thread: the body runs under DB.mu
ThreadDelete(key) == mu_free /\ Delete(key)

\* Batch.commit of thread t up to the lock: the transaction id is read from
\* db.seq_no before DB.mu is taken
ThreadCommitBegin(t, writes) ==
    /\ ~is_closed
    /\ commits[t].pc = "idle"
    /\ txn_id_of(seq_no) <= MaxSeqNo
    /\ commits' = [commits EXCEPT ![t] =
                      [pc |-> "wait", txn_id |-> txn_id_of(seq_no), writes |-> writes,
                       next |-> 1, start |-> 0, poss |-> <<>>]]
    /\ UNCHANGED <<dataVars, fileLockVars, mu, mergeVars, io, puts>>

\* with self.db.mu
ThreadCommitLock(t) ==
    /\ commits[t].pc = "wait"
    /\ mu_free
    /\ TotalRecords + Len(commit_records(commits[t].writes, commits[t].txn_id))
          <= MaxCommitRecords
    /\ mu' = t
    /\ commits' = [commits EXCEPT ![t].pc = "write", ![t].start = TotalRecords]
    /\ UNCHANGED <<dataVars, fileLockVars, mergeVars, io, puts>>

\* one call of db._append_log_record of the commit of thread t
ThreadCommitAppend(t) ==
    LET c == commits[t]
        recs == commit_records(c.writes, c.txn_id)
    IN  /\ c.pc = "write"
        /\ c.next <= Len(recs)
        /\ LET a == append_log_record(Log, recs[c.next])
           IN  /\ SetLog(a.L)
               /\ commits' = [commits EXCEPT ![t].next = c.next + 1,
                                             ![t].poss = Append(c.poss, a.pos)]
        /\ last_op' = "commit_append"
        /\ UNCHANGED <<aux, seq_no_file, index_type, sync_writes, is_closed, index, seq_no,
                       reclaim_size, bytes_write, batch, kv, closed_view, histVars, envVars,
                       raised, buffered, fileLockVars, mu, mergeVars, io, puts>>

\* the rest of the commit of thread t: seq_no, the index, the sync, and the
\* release of DB.mu
ThreadCommitFinish(t) ==
    LET c == commits[t]
        recs == commit_records(c.writes, c.txn_id)
        n == Len(c.writes)
        first == IF c.txn_id > 0 THEN 2 ELSE 1
        upd == apply_positions([index |-> index, reclaim_size |-> reclaim_size],
                               c.writes, SubSeq(c.poss, first, first + n - 1))
    IN  /\ c.pc = "write"
        /\ c.next > Len(recs)
        /\ SetLog(IF sync_writes THEN sync(Log) ELSE Log)
        /\ seq_no' = IF c.txn_id > 0 THEN c.txn_id ELSE seq_no
        /\ index' = upd.index
        /\ reclaim_size' = upd.reclaim_size
        /\ kv' = apply_writes(kv, c.writes)
        /\ mu' = "free"
        /\ commits' = [commits EXCEPT ![t].pc = "done"]
        /\ last_op' = "commit"
        /\ UNCHANGED <<aux, seq_no_file, index_type, sync_writes, is_closed, bytes_write,
                       batch, closed_view, histVars, envVars, raised, buffered, fileLockVars,
                       mergeVars, io, puts>>

\* threads that put, delete and commit batches on one open database
NextThreads ==
    \/ \E k \in Keys, v \in BatchValues : ThreadPut(k, v)
    \/ \E k \in Keys : ThreadDelete(k)
    \/ \E t \in Threads, w \in ThreadBuffers : ThreadCommitBegin(t, w)
    \/ \E t \in Threads : ThreadCommitLock(t)
    \/ \E t \in Threads : ThreadCommitAppend(t)
    \/ \E t \in Threads : ThreadCommitFinish(t)

SpecThreads == Init /\ [][NextThreads]_vars

\* put, delete, close and batches that are committed before or after the
\* close, each write starting from at most ErrRecords records
NextClosedCommit ==
    \/ TotalRecords < ErrRecords /\ \E k \in Keys, v \in Values : Put(k, v)
    \/ TotalRecords <= ErrRecords /\ \E k \in Keys : Delete(k)
    \/ Close
    \/ NewBatch
    \/ \E k \in Keys, v \in BatchValues : BatchPut(k, v)
    \/ \E k \in Keys : BatchDelete(k)
    \/ TotalRecords <= ErrRecords /\ Commit

SpecClosedCommit == Init /\ [][NextClosedCommit]_vars

\* ------------------------------------------------ close and other threads
\* DB.put of thread t up to the lock: is_closed and the key are tested before
\* DB.mu is taken
ThreadPutCheck(t, key, value) ==
    /\ puts[t].pc = "idle"
    /\ ~is_closed
    /\ key # <<>>
    /\ puts' = [puts EXCEPT ![t] = [pc |-> "checked", key |-> key, value |-> value]]
    /\ UNCHANGED <<dataVars, fileLockVars, mu, commits, mergeVars, io>>

\* DB.put of thread t under DB.mu: is_closed is not tested again
ThreadPutBody(t) ==
    /\ puts[t].pc = "checked"
    /\ mu_free
    /\ put(puts[t].key, puts[t].value)
    /\ puts' = [puts EXCEPT ![t] = NoPut]
    /\ UNCHANGED <<buffered, fileLockVars, mu, commits, mergeVars, io>>

\* DB.close by some thread: the body runs under DB.mu
ThreadClose == mu_free /\ Close

\* threads that put and delete while one of them closes the database
NextCloseRace ==
    \/ \E t \in Threads, k \in Keys, v \in Values : ThreadPutCheck(t, k, v)
    \/ \E t \in Threads : ThreadPutBody(t)
    \/ \E k \in Keys : ThreadDelete(k)
    \/ ThreadClose

SpecCloseRace == Init /\ [][NextCloseRace]_vars

\* sequences of writes through both I/O managers
NextIo == \E b \in Chunks : IoWrite(b)

SpecIo == InitIo /\ [][NextIo]_vars

\* ------------------------------------------------ threads that merge
\* DB.merge: the test 'if self.is_merging', made before DB.mu is taken
merge_in_progress(t) == is_merging

\* DB.merge of thread t up to the lock: the tests of is_closed and is_merging;
\* during are the threads whose merge call is in progress when this one arrives
ThreadMergeCheck(t) ==
    /\ ~is_closed
    /\ merges[t].pc = "idle"
    /\ merges' = [merges EXCEPT ![t] =
                     [pc |-> IF merge_in_progress(t) THEN "returned" ELSE "checked",
                      ran |-> FALSE,
                      during |-> {u \in Threads \ {t} : merges[u].pc \in {"checked", "locked"}}]]
    /\ UNCHANGED <<dataVars, fileLockVars, mu, commits, is_merging, io, puts>>

\* with self.mu: self.is_merging = True
ThreadMergeLock(t) ==
    /\ merges[t].pc = "checked"
    /\ mu_free
    /\ mu' = t
    /\ is_merging' = TRUE
    /\ merges' = [merges EXCEPT ![t].pc = "locked"]
    /\ UNCHANGED <<dataVars, fileLockVars, commits, io, puts>>

\* the body of the merge of thread t, the finally clause and the release
ThreadMergeBody(t) ==
    /\ merges[t].pc = "locked"
    /\ merge
    /\ is_merging' = FALSE
    /\ mu' = "free"
    /\ merges' = [merges EXCEPT ![t].pc = "returned", ![t].ran = TRUE]
    /\ UNCHANGED <<buffered, fileLockVars, commits, io, puts>>

\* threads that put, delete and merge on one open database
NextMergeThreads ==
    \/ \E k \in Keys, v \in Values : ThreadPut(k, v)
    \/ \E k \in Keys : ThreadDelete(k)
    \/ \E t \in Threads : ThreadMergeCheck(t)
    \/ \E t \in Threads : ThreadMergeLock(t)
    \/ \E t \in Threads : ThreadMergeBody(t)

SpecMergeThreads == Init /\ [][NextMergeThreads]_vars

\* LogRecordType
RecordTypes == {NORMAL, DELETED, TXNSTART, TXNFINISHED, TXNABORT}

\* DataFile.write_log_record on the active segment, with a record of any type
WriteLogRecord(type, key, value) ==
    /\ ~is_closed
    /\ TotalRecords < MaxRecords
    /\ SetLog(write_log_record(Log, encode(type, key, value)).L)
    /\ last_op' = "write_log_record"
    /\ UNCHANGED <<aux, seq_no_file, index_type, sync_writes, is_closed, index, seq_no,
                   reclaim_size, bytes_write, batch, kv, closed_view, histVars, envVars>>
    /\ raised' = NoRaise
    /\ UNCHANGED <<lockVars, buffered>>

\* the sequential scan of a segment: read_log_record from offset on, each
\* read at the offset after the previous record, until a read returns None
RECURSIVE read_all(_, _)
read_all(s, offset) ==
    LET r == read_log_record(s, offset)
    IN  IF ~r.ok THEN <<>> ELSE <<r>> \o read_all(s, offset + r.size)

\* records of every type with a key and a value, written to one segment
NextDataFile ==
    \E type \in RecordTypes, key \in Keys, value \in BatchValues :
        WriteLogRecord(type, key, value)

SpecDataFile == Init /\ [][NextDataFile]_vars

\* DataFile.write_log_record when io_manager.write puts only the first n
\* bytes of the record into the file and returns n: IOError is raised before
\* write_offset is advanced
WriteLogRecordShort(type, key, value, n) ==
    /\ ~is_closed
    /\ TotalRecords < MaxRecords
    /\ n < encode(type, key, value).size
    /\ files' = IF n = 0 THEN files
                ELSE [files EXCEPT ![active_file] =
                         Append(@, [encode(type, key, value) EXCEPT !.size = n])]
    /\ last_op' = "write_log_record_failed"
    /\ raised' = Raise("write_log_record", NoneVal, "IOError")
    /\ UNCHANGED <<aux, seq_no_file, index_type, sync_writes, is_closed, file_ids, active_file,
                   write_offset, older_files, synced, index, seq_no, reclaim_size, bytes_write,
                   batch, kv, closed_view, histVars, envVars>>
    /\ UNCHANGED <<lockVars, buffered>>

\* appends to one segment that succeed, and appends that the I/O manager
\* cuts short: nothing written, one byte, the header
NextAppend ==
    \/ \E type \in {NORMAL, DELETED}, key \in Keys, value \in BatchValues :
          WriteLogRecord(type, key, value)
    \/ \E type \in {NORMAL, DELETED}, key \in Keys, value \in BatchValues,
          n \in {0, 1, HEADER_SIZE} : WriteLogRecordShort(type, key, value, n)

SpecAppend == Init /\ [][NextAppend]_vars

\* put of one value, delete, merge, close, reopen and batches of one operation
NextSegments ==
    \/ \E k \in Keys, v \in BatchValues : Put(k, v)
    \/ \E k \in Keys : Delete(k)
    \/ Close
    \/ Open
    \/ OpenFail
    \/ Merge
    \/ TotalRecords <= ErrRecords /\ NewBatch
    \/ batch.writes = <<>> /\ \E k \in Keys, v \in BatchValues : BatchPut(k, v)
    \/ batch.writes = <<>> /\ \E k \in Keys : BatchDelete(k)
    \/ ~is_closed /\ Commit
SpecSegments == Init /\ [][NextSegments]_vars

\* every operation
Next ==
    \/ NextTxn
    \/ Commit
    \/ \E j \in 1..(2 + Cardinality(Keys)), ok \in BOOLEAN : CommitFail(j, ok)
    \/ \E t \in TruncPoints(files[FinalSegment]) : Crash(t)
    \/ \E f \in 1..MaxRecords, i \in 1..MaxRecords : Corrupt(f, i)
    \/ Merge
    \/ \E n \in 0..MaxRecords, renamed \in BOOLEAN : MergeCrash(n, renamed)
    \/ OpenFail
    \/ NextLock
    \/ NextErr
    \/ NextSameKey

Spec == Init /\ [][Next]_vars

\* ------------------------------------------------------------------ claims
\* a step in which DB(dir) is constructed on the directory of a closed or
\* crashed instance
OpenStep == is_closed /\ ~is_closed'

\* C1: on an open database get(k) returns the value of the most recent put
\* on k, and None when k was never put or was deleted last, also across
\* segment rollovers: the database refines the plain map kv
C1_GetRefinesMap == ~is_closed => \A k \in Keys : get(k) = kv[k]

C1_Witness ==
    /\ ~is_closed
    /\ opens = 0
    /\ Len(file_ids) >= 2
    /\ reclaim_size > 0
    /\ \E k \in Keys : index[k].file_id >= 2 /\ get(k) = kv[k] /\ kv[k] # NoneVal
    /\ \E k \in Keys : kv[k] = NoneVal /\ \E f \in DOMAIN files : \E i \in 1..Len(files[f]) :
                          files[f][i].key = k /\ files[f][i].type = DELETED

\* C2: after put and delete calls, close() and a fresh open, get(k) returns
\* for every key what it returned before close, and list_keys() the keys
\* that were live before close
C2_ReopenKeepsView ==
    [][OpenStep =>
         /\ View' = closed_view
         /\ list_keys' = {k \in Keys : closed_view[k] # NoneVal}]_vars

C2_Witness ==
    /\ last_op = "open"
    /\ Len(file_ids) >= 2
    /\ \E k \in Keys : get(k) # NoneVal /\ index[k].file_id = 1
    /\ \E k \in Keys : get(k) = NoneVal /\ \E f \in DOMAIN files : \E i \in 1..Len(files[f]) :
                          files[f][i].key = k /\ files[f][i].type = DELETED

\* C3: with index_type = BTREE, after put, delete and committed batches,
\* close() and a fresh open, the visible mapping equals the mapping that was
\* visible before close
C3_BtreeReopenKeepsView ==
    [][(index_type = "BTREE" /\ OpenStep) => View' = closed_view]_vars

\* the puts of the last committed batch all have their index entry
AllApplied ==
    /\ \A p \in txn.puts : index[p.key] = p.pos
    /\ \A k \in txn.dels : index[k] = NoPos

\* no put of the last committed batch has its index entry
NoneApplied == \A p \in txn.puts : index[p.key] # p.pos

\* C4: after a successful commit, close and reopen, either every mutation
\* of the batch is reflected in the visible mapping or none of them is, also
\* when the records of the batch straddle a segment rollover
C4_BatchAllOrNothing ==
    (last_op = "open" /\ txn.fin # NoPos) => (AllApplied \/ NoneApplied)

\* C5: when commit() fails midway, or the process crashes before the
\* TXN_FINISHED marker of the batch is on disk, no put or delete of that
\* batch is visible after the next open
C5_UnfinishedInvisible ==
    (index_type = "BTREE" /\ last_op = "open") =>
        \A k \in Keys : index[k] \notin unfinished

\* a step of Batch.put or Batch.delete
BufferStep ==
    /\ batch.exists /\ ~batch.is_committed
    /\ batch'.exists /\ ~batch'.is_committed
    /\ batch'.writes # batch.writes

\* a step in which a non-empty batch is committed
CommitStep ==
    /\ batch.exists /\ ~batch.is_committed /\ batch.writes # <<>>
    /\ batch'.exists /\ batch'.is_committed

\* C6: Batch.put and Batch.delete change neither the index nor a segment
\* (nor any other field of the database, so get and list_keys, which read
\* these only, return what they returned); after commit() every buffered put
\* is readable with its value and every key buffered as a delete reads None
C6_BatchBuffersUntilCommit ==
    [][/\ BufferStep => UNCHANGED <<index, files, file_ids, active_file, older_files,
                                    write_offset, seq_no, reclaim_size, is_closed>>
       /\ CommitStep => \A i \in 1..Len(batch.writes) :
                           View'[batch.writes[i].key] = batch.writes[i].value]_vars

C6_Witness ==
    /\ batch.exists /\ batch.is_committed
    /\ last_op = "commit"
    /\ \E i, j \in 1..Len(batch.writes) :
          /\ batch.writes[i].value # NoneVal
          /\ get(batch.writes[i].key) = batch.writes[i].value
          /\ batch.writes[j].value = NoneVal
          /\ get(batch.writes[j].key) = NoneVal

\* C7: when the final segment is truncated by any number of bytes and the
\* database is opened, the visible state is the state after the longest
\* prefix of the acknowledged writes whose records are completely on disk
C7_TruncationKeepsPrefix ==
    [][(crashed /\ OpenStep) => View' = closed_view]_vars

\* the plain map after the records es are applied to m in order
RECURSIVE replay(_, _)
replay(m, es) ==
    IF es = <<>> THEN m
    ELSE replay(IF es[1].type = NORMAL THEN [m EXCEPT ![es[1].key] = es[1].value]
                ELSE IF es[1].type = DELETED THEN [m EXCEPT ![es[1].key] = NoneVal]
                ELSE m,
                Tail(es))

\* the records of all segments in log order
RECURSIVE all_entries(_, _)
all_entries(fs, ids) ==
    IF ids = <<>> THEN <<>> ELSE fs[ids[1]] \o all_entries(fs, Tail(ids))

\* the segment files without the damaged record and the records after it
\* in the same segment
WithoutDamaged ==
    [files EXCEPT ![corrupt_at.file_id] =
        SubSeq(@, 1, Cardinality({i \in 1..Len(@) : StartOffset(@, i) < corrupt_at.offset}))]

\* C8: when one record of a segment is corrupted, on reopen that record and
\* every record after it in the same segment are not applied to the index,
\* and the records before it and the records of the other segments are
C8_DamagedRecordCutsSegment ==
    (last_op = "open" /\ corrupt_at # NoPos) =>
        /\ \A k \in Keys : index[k].file_id = corrupt_at.file_id
                              => index[k].offset < corrupt_at.offset
        /\ View = replay(NoView, all_entries(WithoutDamaged, SortIds(DOMAIN files)))

C8_Witness ==
    /\ last_op = "open"
    /\ corrupt_at # NoPos
    /\ corrupt_at.file_id = 1
    /\ corrupt_at.offset > 0
    /\ FileSize(files[1]) > corrupt_at.offset + corrupt_at.size
    /\ \E k \in Keys : index[k].file_id = 1 /\ get(k) # NoneVal
    /\ \E k \in Keys : index[k].file_id = 2 /\ get(k) # NoneVal

\* C9: merge() does not change the visible mapping nor the key count of
\* stat(), and puts and deletes after a merge behave as on any open database
C9_MergeKeepsView ==
    /\ [][last_op' = "merge" => (View' = View /\ index_size(index') = index_size(index))]_vars
    /\ [](("merge_finished" \in aux /\ ~is_closed) => View = kv)

C9_Witness ==
    /\ last_op = "put"
    /\ "merge_finished" \in aux
    /\ Len(file_ids) >= 2
    /\ \E k \in Keys : index[k].file_id = 1 /\ get(k) # NoneVal
    /\ \E k \in Keys : index[k].file_id = 2 /\ get(k) # NoneVal

\* C10: immediately after merge() the database has exactly one segment,
\* with id 1, which is the active one, no immutable segment, not more data
\* files than before, every index entry in segment 1 and reclaim_size 0
C10_MergeLeavesOneSegment ==
    [][last_op' = "merge" =>
         /\ file_ids' = <<1>>
         /\ DOMAIN files' = {1}
         /\ active_file' = 1
         /\ older_files' = {}
         /\ data_files_num' <= data_files_num
         /\ \A k \in Keys : index'[k] # NoPos => index'[k].file_id = 1
         /\ reclaim_size' = 0]_vars

C10_Witness ==
    /\ last_op = "merge"
    /\ file_ids = <<1>>
    /\ reclaim_size = 0
    /\ index_size(index) = 2
    /\ write_offset >= MaxFileSize

\* a step in which DB(dir) is called on the directory of a closed or crashed
\* instance, whether it returns an instance or raises
OpenAttempt == is_closed /\ last_op' \in {"open", "open_failed"}

\* C11: after a merge() and close(), a fresh open of the directory succeeds,
\* removes the merge-finished marker and every segment with id > 1, and shows
\* the mapping that was visible before close
C11_OpenAfterMerge ==
    [][(OpenAttempt /\ ~crashed /\ "merge_finished" \in aux) =>
         /\ ~is_closed'
         /\ "merge_finished" \notin aux'
         /\ DOMAIN files' \subseteq {1}
         /\ View' = closed_view]_vars

\* C12: when merge() is interrupted at any step, the next open succeeds and
\* shows the mapping of before the merge (no segment is removed before
\* merge.data is renamed, and a leftover merge.data does not prevent the open)
C12_InterruptedMergeKeepsView ==
    [][(OpenAttempt /\ last_op = "merge_crash") =>
         (~is_closed' /\ View' = closed_view)]_vars

\* the step in which the acquire of process p returns
AcquireReturns(p) == lock_pc[p] = "opened" /\ lock_pc'[p] # "opened"

\* C13: while a process has the directory open, the open of any other
\* process fails with ErrDatabaseIsUsing and leaves the lock of the holder
\* alone; when no other process has the directory open or is opening or
\* closing it (the holder has closed), the open succeeds
C13_SecondOpenFails ==
    [][\A p \in Procs : AcquireReturns(p) =>
          /\ (\E q \in Procs \ {p} : HoldsLock(q)) =>
                /\ in_use'[p] /\ ~HoldsLock(p)'
                /\ flock_owner' = flock_owner
                /\ \A q \in Procs \ {p} : HoldsLock(q) => HoldsLock(q)'
          /\ (\A q \in Procs \ {p} : lock_pc[q] = "idle") =>
                (HoldsLock(p)' /\ ~in_use'[p])]_vars

\* C14: under every interleaving of the opens and closes of several
\* processes on one directory, at most one process holds the directory lock
C14_AtMostOneHolder == Cardinality({p \in Procs : HoldsLock(p)}) <= 1

\* a call of op has just returned by raising
Raised(op) == raised' # raised /\ raised'.op = op

\* C15: put, get and delete of an open database called with the empty key
\* raise ErrKeyIsEmpty, put and delete of an uncommitted batch called with
\* the empty key raise an error, none of them changes the index, a segment,
\* reclaim_size or the batch buffer, and the empty key never reaches the
\* path that writes
C15_EmptyKeyRejected ==
    /\ [][/\ \A op \in KeyCalls :
                (~is_closed /\ Raised(op) /\ raised'.key = <<>>) =>
                    /\ raised'.err = "ErrKeyIsEmpty"
                    /\ UNCHANGED <<index, files, reclaim_size, batch>>
          /\ \A op \in BatchKeyCalls :
                (~batch.is_committed /\ Raised(op) /\ raised'.key = <<>>) =>
                    /\ raised'.err = "ValueError"
                    /\ UNCHANGED <<index, files, reclaim_size, batch>>]_vars
    /\ [](~is_closed =>
            /\ \A op \in KeyCalls : ENABLED KeyCallRaises(op, <<>>)
            /\ \A v \in Values : ~ENABLED Put(<<>>, v)
            /\ ~ENABLED Delete(<<>>))
    /\ []((batch.exists /\ ~batch.is_committed) =>
            /\ \A op \in BatchKeyCalls : ENABLED BatchKeyCallRaises(op, <<>>)
            /\ \A v \in BatchValues : ~ENABLED BatchPut(<<>>, v)
            /\ ~ENABLED BatchDelete(<<>>))

\* an empty key was rejected by a database that holds records while a batch
\* has buffered operations
C15_Witness ==
    /\ ~is_closed
    /\ raised = Raise("delete", <<>>, "ErrKeyIsEmpty")
    /\ TotalRecords > 0
    /\ batch.exists /\ batch.writes # <<>>

\* C16: on an instance that close() has closed, put, get, delete, stat,
\* iterator, list_keys, fold, backup, merge and new_batch raise
\* ErrDatabaseClosed and change nothing in the directory, and another close()
\* raises nothing and changes nothing
C16_ClosedHandleRejects ==
    /\ [][/\ \A op \in KeyCalls \cup ClosedCalls :
                (is_closed /\ Raised(op)) =>
                    /\ raised'.err = "ErrDatabaseClosed"
                    /\ UNCHANGED <<dirVars, is_closed>>
          /\ (is_closed /\ last_op = "close" /\ last_op' = "close_again") =>
                    /\ raised' = NoRaise
                    /\ UNCHANGED <<dirVars, is_closed, index, seq_no, reclaim_size>>]_vars
    /\ []((has_instance /\ is_closed) =>
            /\ \A op \in KeyCalls, k \in CallKeys : ENABLED KeyCallRaises(op, k)
            /\ \A op \in ClosedCalls : ENABLED ClosedCallRaises(op)
            /\ ENABLED CloseAgain
            /\ ~ENABLED Close)

\* merge was refused after a second close of a database that holds records
C16_Witness ==
    /\ is_closed
    /\ last_op = "close_again"
    /\ raised = Raise("merge", NoneVal, "ErrDatabaseClosed")
    /\ TotalRecords > 0

\* C17: on a batch whose commit has returned, put, delete and commit raise
\* ErrBatchClosed and change neither the database nor the log nor the batch
C17_CommittedBatchRejects ==
    /\ [][\A op \in BatchKeyCalls \cup {"commit"} :
                (batch.is_committed /\ Raised(op)) =>
                    /\ raised'.err = "ErrBatchClosed"
                    /\ UNCHANGED <<dirVars, index, seq_no, reclaim_size, batch, kv>>]_vars
    /\ [](batch.is_committed =>
            /\ \A op \in BatchKeyCalls, k \in CallKeys : ENABLED BatchKeyCallRaises(op, k)
            /\ ENABLED CommitRaises
            /\ ~ENABLED Commit
            /\ ~ENABLED CommitEmpty
            /\ \A k \in Keys, v \in BatchValues : ~ENABLED BatchPut(k, v)
            /\ \A k \in Keys : ~ENABLED BatchDelete(k))

\* a second commit was refused on a batch whose commit wrote records
C17_Witness ==
    /\ batch.is_committed
    /\ last_op = "commit"
    /\ raised = Raise("commit", NoneVal, "ErrBatchClosed")
    /\ txn.recs # {}

\* the commit of a batch without buffered operations has just returned
EmptyCommitStep ==
    /\ batch.exists /\ ~batch.is_committed /\ batch.writes = <<>>
    /\ batch'.is_committed

\* C18: the commit of a batch without buffered operations appends no record,
\* no marker either, leaves seq_no, the index and reclaim_size as they were
\* and raises nothing; the path that writes is not taken
C18_EmptyCommitIsNoOp ==
    /\ [][EmptyCommitStep =>
            /\ UNCHANGED <<dirVars, logVars, seq_no, index, reclaim_size>>
            /\ raised' = NoRaise]_vars
    /\ []((batch.exists /\ ~batch.is_committed /\ batch.writes = <<>>) =>
            (ENABLED CommitEmpty /\ ~ENABLED Commit))

\* an empty batch was committed on a database with transaction ids that
\* holds records
C18_Witness ==
    /\ batch.is_committed
    /\ batch.writes = <<>>
    /\ index_type = "BTREE"
    /\ TotalRecords > 0
    /\ raised = NoRaise

\* byte strings of at most two bytes over two byte values
ByteStrings == {<<>>} \cup {<<x>> : x \in {97, 98}} \cup {<<x, y>> : x, y \in {97, 98}}

\* a comes before b in byte-lexicographic order: a is a proper prefix of b,
\* or at the first position where they differ a has the smaller byte
LexBefore(a, b) ==
    \E n \in 0..Len(a) :
        /\ n <= Len(b)
        /\ \A i \in 1..n : a[i] = b[i]
        /\ \/ n = Len(a) /\ n < Len(b)
           \/ n < Len(a) /\ n < Len(b) /\ a[n + 1] < b[n + 1]

\* C19: on an open database the forward iterator and list_keys visit the
\* keys in ascending byte-lexicographic order, the reverse iterator visits
\* them in the reverse order, and both visit each live key once, no deleted
\* key, each with its current value
C19_IteratorOrder ==
    ~is_closed =>
        LET f == iterator(FALSE)
            r == iterator(TRUE)
        IN  /\ \A i, j \in 1..Len(f) : i < j => LexBefore(f[i].key, f[j].key)
            /\ Len(r) = Len(f)
            /\ \A i \in 1..Len(f) : r[i] = f[Len(f) + 1 - i]
            /\ {f[i].key : i \in 1..Len(f)} = {k \in Keys : kv[k] # NoneVal}
            /\ \A i \in 1..Len(f) : f[i].value = kv[f[i].key]
            /\ list_keys_list = [i \in 1..Len(f) |-> f[i].key]
            /\ \A a, b \in ByteStrings : bytes_lt(a, b) <=> LexBefore(a, b)

\* two live keys, the larger one written first, and records that are no
\* longer live
C19_Witness ==
    /\ ~is_closed
    /\ Len(iterator(FALSE)) = 2
    /\ \E k1, k2 \in Keys :
          /\ LexBefore(k1, k2)
          /\ index[k1].file_id = index[k2].file_id
          /\ index[k2].offset < index[k1].offset
    /\ reclaim_size > 0
    /\ opens > 0

\* the keys of the logged calls, and the value of the last logged call on k
\* (NoneVal for a delete)
buffered_keys == {buffered[i].key : i \in 1..Len(buffered)}
last_buffered(k) ==
    LET n == CHOOSE i \in 1..Len(buffered) :
                /\ buffered[i].key = k
                /\ \A j \in (i + 1)..Len(buffered) : buffered[j].key # k
    IN  buffered[n].value

\* C20: the commit of a batch leaves every key of the batch as the last call
\* buffered for that key says (absent after a delete, present with the
\* value after a put), leaves the other keys alone and appends one NORMAL or
\* DELETED record for each distinct key of the batch
C20_LastBufferedWins ==
    [][(CommitStep /\ buffered # <<>>) =>
          /\ \A k \in buffered_keys : View'[k] = last_buffered(k)
          /\ \A k \in Keys \ buffered_keys : View'[k] = View[k]
          /\ Cardinality(txn'.recs) = Cardinality(buffered_keys)
          /\ TotalRecords' - TotalRecords =
               Cardinality(buffered_keys) + (IF txn_id_of(seq_no) > 0 THEN 2 ELSE 0)
          /\ \A k \in buffered_keys :
               Cardinality({pos \in txn'.recs :
                              LET r == read_log_record(files'[pos.file_id], pos.offset)
                              IN  r # NoRead /\ r.key = k}) = 1]_vars

\* a committed batch in which one key was put and then deleted and the other
\* key was deleted and then put
C20_Witness ==
    /\ last_op = "commit"
    /\ batch.is_committed
    /\ \E k1, k2 \in Keys :
          /\ k1 # k2
          /\ \E i, j \in 1..Len(buffered) :
                i < j /\ buffered[i].key = k1 /\ buffered[j].key = k1
                /\ buffered[i].value # NoneVal /\ buffered[j].value = NoneVal
          /\ \E i, j \in 1..Len(buffered) :
                i < j /\ buffered[i].key = k2 /\ buffered[j].key = k2
                /\ buffered[i].value = NoneVal /\ buffered[j].value # NoneVal
          /\ View[k1] = NoneVal
          /\ View[k2] # NoneVal

\* the segment files as a crash leaves them that loses every byte no fsync
\* has covered
synced_files == [f \in DOMAIN files |-> truncate(files[f], synced[f])]

\* C21: with sync_writes = true, when put, delete or Batch.commit has
\* returned, every byte of every segment is synced, the segments that the
\* call sealed included, and the synced bytes hold every acknowledged write
C21_SyncWritesLosesNothing ==
    (sync_writes /\ ~is_closed /\ last_op \in {"put", "delete", "commit"}) =>
        /\ DOMAIN synced = DOMAIN files
        /\ \A f \in DOMAIN files : synced[f] = FileSize(files[f])
        /\ prefix_view(synced_files) = kv

\* a batch commit with sync_writes = true that rolled over between its
\* records
C21_Witness ==
    /\ sync_writes
    /\ ~is_closed
    /\ last_op = "commit"
    /\ \E p \in txn.recs : p.file_id # txn.fin.file_id
    /\ older_files # {}

\* the number of bytes appended to the segments that no fsync has covered
unsynced_bytes ==
    LET RECURSIVE Sum(_)
        Sum(S) == IF S = {} THEN 0
                  ELSE LET f == CHOOSE x \in S : TRUE
                       IN  (FileSize(files[f]) - synced[f]) + Sum(S \ {f})
    IN  Sum(DOMAIN files)

\* C22: with sync_writes = false and bytes_per_sync = N > 0, when put,
\* delete or a batch commit has returned, fewer than N appended bytes are
\* unsynced
C22_SyncThreshold ==
    (~sync_writes /\ BytesPerSync > 0 /\ ~is_closed
        /\ last_op \in {"put", "delete", "commit"}) =>
        unsynced_bytes < BytesPerSync

\* a step of merge (a batch handle is not touched by any step but its own)
MergeStep == last_op' = "merge" /\ batch' = Dropped(batch)

\* the sizes, as encoded in the segments, of the records that the index
\* named before the step for the keys whose index entry the step changed
superseded_size ==
    LET RECURSIVE Sum(_)
        Sum(S) == IF S = {} THEN 0
                  ELSE LET k == CHOOSE x \in S : TRUE
                       IN  read_log_record(files[index[k].file_id], index[k].offset).size
                           + Sum(S \ {k})
    IN  Sum({k \in Keys : index[k] # NoPos /\ index'[k] # index[k]})

AppendStep ==
    /\ ~is_closed /\ ~is_closed'
    /\ last_op' \in {"put", "delete"}
    /\ TotalRecords' = TotalRecords + 1

\* C24: an append rolls over exactly when the record would make the active
\* segment larger than max_file_size; the rollover syncs the old active
\* segment, keeps it among the older files under its id, and the record
\* becomes the first one of a new active segment whose id is the largest
\* id plus one
C24_RolloverWhenExceeding ==
    [][AppendStep =>
         LET record == Last(files'[active_file'])
             rolled == active_file' # active_file
         IN  /\ rolled <=> (write_offset + record.size > MaxFileSize)
             /\ rolled =>
                  /\ synced'[active_file] = FileSize(files[active_file])
                  /\ files'[active_file] = files[active_file]
                  /\ older_files' = older_files \cup {active_file}
                  /\ \A f \in DOMAIN files : f < active_file'
                  /\ active_file' = Last(file_ids) + 1
                  /\ file_ids' = Append(file_ids, active_file')
                  /\ files'[active_file'] = <<record>>]_vars

\* C25: while the database is open the segment files on disk are those with
\* the ids 1..n without a gap, file_ids lists them in this order, the active
\* segment is n and the older files are 1..n-1
C25_SegmentIdsContiguous ==
    ~is_closed =>
        LET n == Len(file_ids)
        IN  /\ n >= 1
            /\ file_ids = [i \in 1..n |-> i]
            /\ DOMAIN files = 1..n
            /\ active_file = n
            /\ older_files = 1..(n - 1)

\* an open database with at least two segments that was reopened
C25_Witness ==
    /\ ~is_closed
    /\ Len(file_ids) >= 2
    /\ opens > 0
    /\ last_op \in {"commit", "put"}

\* C26: in every state of an open database every position held by the index
\* names a segment that exists and is open, and the bytes at its offset decode
\* to a NORMAL record of exactly the stored size whose key is the index key
C26_IndexPointsAtNormalRecord ==
    ~is_closed =>
        \A k \in Keys :
            index[k] # NoPos =>
                /\ index[k].file_id \in DOMAIN files
                /\ index[k].file_id \in older_files \cup {active_file}
                /\ LET r == read_log_record(files[index[k].file_id], index[k].offset)
                   IN  /\ r.ok
                       /\ r.type = NORMAL
                       /\ r.key = k
                       /\ r.size = index[k].size

\* the index of a reopened database holds a position in a sealed segment and
\* one in the active segment after a batch commit
C26_Witness ==
    /\ ~is_closed
    /\ opens > 0
    /\ last_op = "commit"
    /\ \E k \in Keys : index[k] # NoPos /\ index[k].file_id \in older_files
    /\ \E k \in Keys : index[k] # NoPos /\ index[k].file_id = active_file

\* the transaction ids whose TXN_FINISHED marker is in a segment file
finished_on_disk ==
    {t \in 1..(MaxSeqNo + 1) :
        \E f \in DOMAIN files : \E i \in 1..Len(files[f]) :
            files[f][i].type = TXNFINISHED /\ files[f][i].key = str(t)}

\* C27: with the BTREE index, seq_no of an open database is at least every
\* transaction id whose TXN_FINISHED marker is on disk, also after the reopen
\* that follows a crash
C27_SeqNoCoversFinished ==
    (index_type = "BTREE" /\ ~is_closed) => \A t \in finished_on_disk : seq_no >= t

\* a step that appends one record with write_log_record
WriteStep == last_op' = "write_log_record"

\* what a read returns for the entry e of a segment
AsRead(e) == [ok |-> TRUE, type |-> e.type, key |-> e.key, value |-> e.value,
              size |-> HEADER_SIZE + Len(e.key) + Len(e.value)]

\* C28: a record of any type with a non-empty key and value, appended to a
\* segment, is read back at the offset the write returned with the same type,
\* key and value and the size 13 + key_len + value_len, and the scan from
\* offset 0 yields every appended record in order
C28_RecordRoundTrip ==
    [][WriteStep =>
        LET s == files'[active_file]
        IN  /\ read_log_record(s, write_offset) = AsRead(Last(s))
            /\ write_offset' = write_offset + AsRead(Last(s)).size
            /\ read_all(s, 0) = [i \in 1..Len(s) |-> AsRead(s[i])]]_vars

\* the records the recovery reads: the scan of each segment in id order
RECURSIVE scanned(_, _)
scanned(fs, ids) ==
    IF ids = <<>> THEN <<>> ELSE read_all(fs[ids[1]], 0) \o scanned(fs, Tail(ids))

\* the reclaimable size the recovery is said to compute from these records:
\* a NORMAL record adds the size of the record it supersedes, a DELETED
\* record adds its own size and the size of the record it removes (live maps
\* each key to the size of its indexed record, 0 when it has none)
RECURSIVE said_reclaim(_, _, _)
said_reclaim(recs, live, total) ==
    IF recs = <<>> THEN total
    ELSE LET r == recs[1]
         IN  IF r.type = NORMAL
             THEN said_reclaim(Tail(recs), [live EXCEPT ![r.key] = r.size],
                               total + live[r.key])
             ELSE IF r.type = DELETED
             THEN said_reclaim(Tail(recs), [live EXCEPT ![r.key] = 0],
                               total + r.size + live[r.key])
             ELSE said_reclaim(Tail(recs), live, total)

\* the keys the recovery is said to leave in the index
RECURSIVE said_live(_, _)
said_live(recs, live) ==
    IF recs = <<>> THEN live
    ELSE LET r == recs[1]
         IN  IF r.type = NORMAL THEN said_live(Tail(recs), live \cup {r.key})
             ELSE IF r.type = DELETED THEN said_live(Tail(recs), live \ {r.key})
             ELSE said_live(Tail(recs), live)

\* C29: the recovery leaves in the index the keys whose last record is NORMAL,
\* and a reclaim_size to which each NORMAL record added the size of the record
\* it superseded and each DELETED record its own size plus the size of the
\* record it removed
C29_RecoveryReclaim ==
    [][(is_closed /\ ~is_closed') =>
        LET recs == scanned(files', file_ids')
        IN  /\ {k \in Keys : index'[k] # NoPos} = said_live(recs, {})
            /\ reclaim_size' = said_reclaim(recs, [k \in Keys |-> 0], 0)]_vars

\* the records of all segment files in the order of the segment ids
RECURSIVE log_of(_, _)
log_of(fs, ids) == IF ids = <<>> THEN <<>> ELSE fs[ids[1]] \o log_of(fs, Tail(ids))

\* type, key and value of an entry
Plain(e) == [type |-> e.type, key |-> e.key, value |-> e.value]

\* the layout a committed batch with id t is said to have in the log
said_layout(writes, t) ==
    <<[type |-> TXNSTART, key |-> str(t), value |-> <<>>]>>
    \o [i \in 1..Len(writes) |->
          IF writes[i].value = NoneVal
          THEN [type |-> DELETED, key |-> writes[i].key, value |-> <<>>]
          ELSE [type |-> NORMAL, key |-> writes[i].key, value |-> writes[i].value]]
    \o <<[type |-> TXNFINISHED, key |-> str(t), value |-> <<>>]>>

\* C30: with the BTREE index (markers enabled), what a batch commit has
\* appended so far is the beginning of TXN_START(t), one NORMAL or DELETED
\* record per buffered key in buffer order, TXN_FINISHED(t), placed at the end
\* of the log with no record of another writer in between; a finished commit
\* has left the whole layout as consecutive records of the log
C30_BatchRecordsContiguous ==
    index_type = "BTREE" =>
        \A t \in Threads :
            LET c == commits[t]
                log == log_of(files, file_ids)
                layout == said_layout(c.writes, c.txn_id)
            IN  /\ c.pc = "write" =>
                      /\ Len(log) = c.start + c.next - 1
                      /\ \A i \in 1..(c.next - 1) : Plain(log[c.start + i]) = layout[i]
                /\ c.pc = "done" =>
                      /\ Len(log) >= c.start + Len(layout)
                      /\ \A i \in 1..Len(layout) : Plain(log[c.start + i]) = layout[i]

\* two threads raced for the same transaction id and both committed, one of
\* them a batch of two keys that follows other records
C30_Witness ==
    /\ index_type = "BTREE"
    /\ \E t \in Threads, u \in Threads :
          /\ t # u
          /\ commits[t].pc = "done"
          /\ commits[u].pc = "done"
          /\ Len(commits[t].writes) = 2
          /\ commits[t].start > 0
          /\ commits[t].txn_id = commits[u].txn_id

\* int(key.decode()) of the key of a transaction marker
txn_id_in(key) == CHOOSE n \in 0..(MaxSeqNo + 1) : str(n) = key

\* the TXN_FINISHED markers of the log, in log order
finished_markers ==
    SelectSeq(log_of(files, file_ids), LAMBDA e : e.type = TXNFINISHED)

\* C31: with the BTREE index the transaction ids of the committed batches are
\* strictly increasing in log order, so no two committed batches carry the
\* same id, also when threads commit concurrently
C31_TxnIdsIncrease ==
    (index_type = "BTREE" /\ ~is_closed) =>
        \A i \in 1..Len(finished_markers) : \A j \in 1..Len(finished_markers) :
            i < j => txn_id_in(finished_markers[i].key) < txn_id_in(finished_markers[j].key)

\* a step in which Batch.commit raises from an append or from the final sync
CommitRaisedStep == raised'.op = "commit" /\ raised'.err = "Exception"

\* C32: when Batch.commit raises, the index, reclaim_size and what get()
\* shows are as they were before the commit started (the TXN_ABORT marker is
\* best effort and adds no requirement)
C32_FailedCommitLeavesMemory ==
    [][CommitRaisedStep =>
        /\ index' = index
        /\ reclaim_size' = reclaim_size
        /\ View' = View]_vars

\* the places (segment, entry number) of the NORMAL and DELETED records of key k
records_of(k) ==
    UNION {{<<f, i>> : i \in {j \in 1..Len(files[f]) :
                                /\ files[f][j].key = k
                                /\ files[f][j].type \in {NORMAL, DELETED}}} :
           f \in DOMAIN files}

\* the last of them in log order
last_record_of(k) ==
    CHOOSE p \in records_of(k) :
        \A q \in records_of(k) : q[1] < p[1] \/ (q[1] = p[1] /\ q[2] <= p[2])

\* the index entry that corresponds to the last record of key k in the log
entry_by_log(k) ==
    IF records_of(k) = {} THEN NoPos
    ELSE LET p == last_record_of(k)
             e == files[p[1]][p[2]]
         IN  IF e.type = DELETED THEN NoPos
             ELSE [file_id |-> p[1], offset |-> StartOffset(files[p[1]], p[2]),
                   size |-> e.size]

\* C33: whenever no thread is inside a write (DB.mu is free), the index entry
\* of each key corresponds to the last record of that key in log order, and
\* get returns for each key the value of the writes in the order in which
\* they took the mutex
C33_IndexFollowsLog ==
    (~is_closed /\ mu = "free") =>
        \A k \in Keys :
            /\ index[k] = entry_by_log(k)
            /\ get(k) = kv[k]

\* a put went in while one thread had committed a batch of two keys and the
\* other was waiting for the mutex, and a key has a record that is superseded
C33_Witness ==
    /\ mu = "free"
    /\ last_op = "put"
    /\ \E t \in Threads, u \in Threads :
          /\ commits[t].pc = "done"
          /\ Len(commits[t].writes) = 2
          /\ commits[u].pc = "wait"
    /\ \E k \in Keys : Cardinality(records_of(k)) >= 2

\* C34: of two merge() calls of different threads that overlap (one arrived
\* while the other was in progress) at most one runs the merge body; the other
\* returns without rewriting a segment
C34_OverlappingMergeRunsOnce ==
    \A t \in Threads : \A u \in merges[t].during :
        ~(merges[t].ran /\ merges[u].ran)

\* a step in which commit is called on a non-empty batch of a closed database
ClosedCommitStep ==
    /\ is_closed
    /\ batch.exists /\ ~batch.is_committed /\ batch.writes # <<>>
    /\ last_op' = "commit"

\* C35: Batch.commit on a batch whose database has been closed fails and has
\* no effect: no record is appended, no segment file is created, and the
\* index and seq_no are unchanged
C35_CommitAfterCloseNoEffect ==
    [][ClosedCommitStep =>
        /\ raised' # NoRaise
        /\ files' = files
        /\ file_ids' = file_ids
        /\ index' = index
        /\ seq_no' = seq_no]_vars

\* C36: delete of a key that is not in the index appends nothing, rolls
\* nothing over and leaves the index, reclaim_size and bytes_write unchanged;
\* delete of a key that is in the index appends exactly one DELETED record of
\* that key, leaves every other record in place and removes the key
C36_DeleteAbsentIsNoOp ==
    [][\A k \in Keys :
        Delete(k) =>
            IF index[k] = NoPos
            THEN /\ files' = files
                 /\ file_ids' = file_ids
                 /\ active_file' = active_file
                 /\ older_files' = older_files
                 /\ write_offset' = write_offset
                 /\ index' = index
                 /\ reclaim_size' = reclaim_size
                 /\ bytes_write' = bytes_write
            ELSE /\ TotalRecords' = TotalRecords + 1
                 /\ Plain(Last(files'[active_file'])) =
                       [type |-> DELETED, key |-> k, value |-> <<>>]
                 /\ \A f \in DOMAIN files :
                       files'[f] = IF f = active_file'
                                   THEN Append(files[f], Last(files'[f]))
                                   ELSE files[f]
                 /\ index' = [index EXCEPT ![k] = NoPos]]_vars

\* a delete of an absent key was called on a database that holds a record
C36_Witness ==
    /\ ~is_closed
    /\ last_op = "delete"
    /\ TotalRecords = 1
    /\ files[1][1].type = NORMAL

\* the offset at which chunk i began
chunk_offset(i) ==
    LET RECURSIVE SumLen(_)
        SumLen(n) == IF n = 0 THEN 0 ELSE Len(io.chunks[n]) + SumLen(n - 1)
    IN  SumLen(i - 1)

\* C37: after any sequence of write(b) calls on an empty file, with either
\* backend the last write returned len(b), size() is the number of bytes
\* written, and the read at the offset where a chunk began returns that
\* chunk; so the two backends return the same for write, read and size
C37_BackendsAgree ==
    LET n == Len(io.chunks)
    IN  /\ n > 0 => /\ io.std.ret = Len(io.chunks[n])
                    /\ io.mm.raised = "none"
                    /\ io.mm.ret = Len(io.chunks[n])
        /\ file_size(io.std) = chunk_offset(n + 1)
        /\ mmap_size(io.mm) = chunk_offset(n + 1)
        /\ \A i \in 1..n :
              /\ file_read(io.std, Len(io.chunks[i]), chunk_offset(i)) = io.chunks[i]
              /\ mmap_read(io.mm, Len(io.chunks[i]), chunk_offset(i)) = io.chunks[i]

\* C38: under any interleaving of close() with put and delete on other
\* threads, once close() has returned no record is appended to any segment
\* and no segment file is created
C38_NoWriteAfterClose ==
    [][is_closed => /\ files' = files
                    /\ file_ids' = file_ids]_vars

\* a segment holds the first bytes of a record that a crash has cut
torn_tail == \E f \in DOMAIN files : \E i \in 1..Len(files[f]) :
                files[f][i].size # total_size(files[f][i])

\* the open that follows the clean close of the session that began with the
\* recovery of a cut record
OpenAfterRecoveredSession ==
    /\ torn_tail
    /\ opens = 1
    /\ last_op = "close"
    /\ last_op' = "open"

\* C39: when an open has recovered a directory whose last segment ends in a
\* cut record, what get showed at the clean close of that session, with every
\* put and delete acknowledged in it, is what get shows after the next open
C39_WritesAfterRecoverySurvive ==
    [][OpenAfterRecoveredSession => View' = closed_view]_vars

\* a step that is an append attempt on the segment, successful or failed
AppendAttempt == last_op' \in {"write_log_record", "write_log_record_failed"}

\* C40: after every append attempt on a segment, successful or failed with
\* IOError on a short write, write_offset is the size of the file, so the
\* offset the next append returns is the byte at which its record starts
C40_WriteOffsetIsFileSize ==
    [][AppendAttempt => write_offset' = FileSize(files'[active_file'])]_vars

====
